---- MODULE Spec2Model ----
(***************************************************************************)
(* Word-level diarization / ASR alignment and scoring (ASR_DIAR_OFFLINE,   *)
(* nemo/collections/asr/parts/utils/diarization_utils.py).                 *)
(*                                                                         *)
(* Times are counted in hundredths of a second (one frame of the          *)
(* frame-level VAD trace, the resolution of round(x, 2)).  A time the      *)
(* program reads or rounds is written as the integer n and stands for the  *)
(* double nearest to n / 100; the results of float arithmetic are pairs    *)
(* <<n, d>> (see "Python floats").  Python lists are sequences; a Python   *)
(* index i is the sequence index i + 1.                                    *)
(***************************************************************************)
EXTENDS Integers, Sequences, FiniteSets, TLC

VARIABLES
    pc,                  \* position in the operation being run
    params,              \* self.params
    word_ts,             \* word timestamps of the utterance, [start, end] each
    speech_labels,       \* result of _get_speech_labels_from_decoded_prediction
    frame_VAD,           \* self.frame_VAD[uniq_id], frame-level activity scores
    labels,              \* diar_labels[k], speaker intervals of the utterance
    word_ts_list,        \* the word timestamps the alignment loop iterates
    j,                   \* alignment loop: index of the next word
    idx,                 \* alignment loop: speaker-interval pointer
    end_point,           \* alignment loop: end of the current interval
    speaker,             \* alignment loop: speaker of the current interval
    riva_words,          \* riva_dict['words']
    string_out,          \* the speaker-turn transcript, as a list of items
    ref_labels,          \* ref_labels_list[k], reference speaker intervals
    mapping_dict,        \* DER_result_dict[uniq_id]['mapping']
    total_word_count,    \* get_WDER: len(words_list)
    wdict,               \* get_WDER: the word of the current loop iteration
    wpos,                \* get_WDER: number of words processed
    correct_word_count,  \* get_WDER: correct words so far
    wder,                \* wder_dict[uniq_id], the fraction <<numerator, denominator>>
    ovl,                 \* isOverlapArray / getOverlapRangeArray: arguments and results
    score,               \* eval_diarization and get_WDER over the list of audio files
    asr,                 \* set_asr_model: the model name and the attributes of self
    bpe,                 \* WERBPE_TS.get_ts_from_decoded_prediction: arguments and result
    ctc,                 \* run_ASR_QuartzNet_CTC: the character decoder of one utterance
    par,                 \* fake_initialize_model_parallel: arguments, groups and result
    sil,                 \* closest_silence_start: arguments and result
    run                  \* run_diarization, then write_json_and_transcript, on a file list

vars == <<pc, params, word_ts, speech_labels, frame_VAD, labels, word_ts_list,
          j, idx, end_point, speaker, riva_words, string_out, ref_labels,
          mapping_dict, total_word_count, wdict, wpos, correct_word_count, wder,
          ovl, score, asr, bpe, ctc, par, sil, run>>

\* the state of further operations that run on their own inputs
sideVars == <<par, sil, run>>

\* the state of the operations that run on their own inputs
extVars == <<ovl, score, asr, bpe, ctc, sideVars>>

alignVars == <<labels, j, idx, end_point, speaker, riva_words, string_out>>
wderVars == <<ref_labels, mapping_dict, total_word_count, wdict, wpos, correct_word_count,
              wder>>

\* no word read yet
NoWord == [start_time |-> 0, end_time |-> 0, speaker_label |-> "none"]

\* the alignment state before write_json_and_transcript has run
AlignIdle ==
    /\ labels = <<>>
    /\ j = 0
    /\ idx = 0
    /\ end_point = 0
    /\ speaker = "none"
    /\ riva_words = <<>>
    /\ string_out = <<>>

\* the scoring state before get_WDER has run
WDERIdle ==
    /\ ref_labels = <<>>
    /\ mapping_dict = <<>>
    /\ total_word_count = 0
    /\ wdict = NoWord
    /\ wpos = 0
    /\ correct_word_count = 0
    /\ wder = <<>>

\* no array has been compared yet
OvlIdle == ovl = [rangeA |-> <<>>, rangeB |-> <<>>, ovl_bool |-> <<>>, ovl_length |-> <<>>]

\* a dict without entries
EmptyDict == <<>>

\* nothing has been scored yet
ScoreIdle ==
    score = [audio_file_list |-> <<>>, diar_labels |-> <<>>, rttm_labels |-> EmptyDict,
             rttm_on_disk |-> {}, der_mapping |-> EmptyDict, total_riva_dict |-> EmptyDict,
             k |-> 0, ref_labels_list |-> <<>>, all_references |-> <<>>,
             all_hypotheses |-> <<>>, DER_result_dict |-> EmptyDict,
             count_correct_spk_counting |-> 0, eval_returned |-> <<>>,
             wder_dict |-> EmptyDict, grand_total_word_count |-> 0,
             grand_correct_word_count |-> 0, wder_returned |-> <<>>]

\* set_asr_model has not been called
AsrIdle ==
    asr = [ASR_model_name |-> {}, self |-> EmptyDict, returned |-> "nothing",
           directories |-> EmptyDict]

\* get_ts_from_decoded_prediction has not been called
BpeIdle ==
    bpe = [prediction |-> <<>>, time_stride |-> 0, asr_delay_sec |-> 0,
           decoded_char_list |-> <<>>, char_ts |-> <<>>, hypothesis |-> <<>>,
           word_ts |-> <<>>]

\* the character decoder has not run
CtcIdle ==
    ctc = [prediction |-> <<>>, time_stride |-> 0, asr_delay_sec |-> 0, text |-> <<>>,
           char_ts |-> <<>>, trans |-> <<>>, spaces_in_sec |-> <<>>, trans_words |-> <<>>,
           word_ts |-> <<>>]

\* fake_initialize_model_parallel has not been called
NoGroups ==
          [world_size |-> 0, rank |-> 0, tensor_model_parallel_size_ |-> 0,
           pipeline_model_parallel_size_ |-> 0, all_data_parallel_group_ranks |-> <<>>,
           all_model_parallel_group_ranks |-> <<>>,
           all_tensor_model_parallel_group_ranks |-> <<>>,
           all_pipeline_model_parallel_group_ranks |-> <<>>,
           all_embedding_group_ranks |-> <<>>, returned |-> <<>>]
ParIdle == par = NoGroups

\* closest_silence_start has not been called
SilIdle ==
    sil = [vad_index_word_end |-> 0, vad_frames |-> <<>>, SAD_threshold_for_word_ts |-> 0,
           returned |-> 0]

\* run_diarization has not been called
NoRun ==
          [audio_file_list |-> <<>>, word_list |-> <<>>, word_ts_list |-> <<>>,
           oracle_manifest |-> "unset", pretrained_vad_model |-> "unset",
           params |-> <<>>, root_path |-> "None", config |-> <<>>, vad_rttm |-> <<>>,
           oracle_manifest_json |-> <<>>, frame_VAD |-> <<>>, diar_labels |-> <<>>,
           json_result |-> <<>>, total_riva_dict |-> <<>>]
RunIdle == run = NoRun

SideIdle == ParIdle /\ SilIdle /\ RunIdle

\* the operations that run on their own inputs have not run
ExtIdle == OvlIdle /\ ScoreIdle /\ AsrIdle /\ BpeIdle /\ CtcIdle /\ SideIdle

(***************************************************************************)
(* Bounds                                                                  *)
(***************************************************************************)
MergeMaxTime == 6
MergeMaxWords == 3
MaxThreshold == 2
AlignMaxTime == 3
AlignMaxWords == 2
MaxLabels == 3
AlignFrames == 16
AlignMaxWordLen == 2
WderMaxTime == 2
WderWideMaxTime == 4
MaxRef == 2
MaxWderWords == 3
WderWideMaxWords == 1
EnhMaxTime == 3
EnhWideMaxTime == 7
EnhMaxWords == 2
MaxFrames == 16
MaxWordLen == 3

\* closest_silence_start(..., offset=10): frames skipped after the word end
Offset == 10

\* speaker tags of the diarizer output
Speakers == {"speaker_0", "speaker_1"}

\* speaker names of the reference RTTM
RefSpeakers == {"A", "B"}

Min(a, b) == IF a <= b THEN a ELSE b
Max(a, b) == IF a >= b THEN a ELSE b

(***************************************************************************)
(* Python floats.  The double x is the pair <<n, d>> with                  *)
(*     x = (n * 2^60 + d) / (100 * 2^60),                                  *)
(* n the nearest hundredth and d the deviation from it, an integer         *)
(* because every double that occurs is a multiple of 2^-60.  Arithmetic is *)
(* exact on the pair and then rounded to 53 significant bits, to nearest,  *)
(* ties to even, as IEEE 754 does.                                         *)
(***************************************************************************)

\* 2^p mod m
RECURSIVE Pow2Mod(_, _)
Pow2Mod(p, m) ==
    IF p < 20 THEN (2 ^ p) % m ELSE (Pow2Mod(p - 20, m) * ((2 ^ 20) % m)) % m

\* the value of <<n, d>>, n >= 0, is at least 2^e
AtLeastPow2(n, d, e) ==
    IF e >= 0
    THEN n > 100 * (2 ^ e) \/ (n = 100 * (2 ^ e) /\ d >= 0)
    ELSE n * (2 ^ (0 - e)) > 100 \/ (n * (2 ^ (0 - e)) = 100 /\ d >= 0)

\* the binary exponent e of a value >= 2^e0: 2^e <= value < 2^(e + 1)
RECURSIVE ExponentFrom(_, _, _)
ExponentFrom(n, d, e) ==
    IF AtLeastPow2(n, d, e + 1) THEN ExponentFrom(n, d, e + 1) ELSE e

\* the remainder of n / 100 + d / (100 * 2^60) on the multiples of
\* m * scale / 100 units of d, pw being 2^(52 - e) modulo m
RoundRem(n, d, scale, pw, m) == (scale * (((n % m) * pw) % m) + d) % (m * scale)

\* round half to even: rem is the remainder on the grid of the doubles, rem2
\* the remainder on twice that grid
RoundToGrid(n, d, grid, rem, rem2) ==
    IF 2 * rem < grid THEN <<n, d - rem>>
    ELSE IF 2 * rem > grid THEN <<n, d - rem + grid>>
    ELSE IF rem2 = rem THEN <<n, d - rem>> ELSE <<n, d - rem + grid>>

\* the value n / 100 + d / (100 * 2^60), n > 0, of binary exponent e, rounded
\* to a double: the spacing of the doubles at exponent e is 2^(e - 52), which
\* is 100 * 2^(8 + e) in the unit of d
FRoundAtExponent(n, d, e) ==
    RoundToGrid(n, d, 100 * (2 ^ (8 + e)),
                RoundRem(n, d, 2 ^ (8 + e), Pow2Mod(52 - e, 100), 100),
                RoundRem(n, d, 2 ^ (8 + e), Pow2Mod(52 - e, 200), 200))

FRoundPositive(n, d) == FRoundAtExponent(n, d, ExponentFrom(n, d, 0 - 8))

\* x * s for a sign s
FSigned(s, x) == <<s * x[1], s * x[2]>>

\* rounding of an exact value; a value within a hundredth of zero is a
\* difference of two doubles, which is a double
FRound(n, d) ==
    IF n = 0 THEN <<n, d>>
    ELSE FSigned(IF n > 0 THEN 1 ELSE 0 - 1,
                 FRoundPositive(IF n > 0 THEN n ELSE 0 - n, IF n > 0 THEN d ELSE 0 - d))

\* the double of the decimal n / 100: a literal, float("..."), round(x, 2)
Flt(n) == FRound(n, 0)

\* x + y, x - y, k * x for an int k
FAdd(x, y) == FRound(x[1] + y[1], x[2] + y[2])
FSub(x, y) == FRound(x[1] - y[1], x[2] - y[2])
FMulInt(k, x) == FRound(k * x[1], k * x[2])

\* x < y, x <= y
FLess(x, y) == x[1] < y[1] \/ (x[1] = y[1] /\ x[2] < y[2])
FLeq(x, y) == x[1] < y[1] \/ (x[1] = y[1] /\ x[2] <= y[2])

\* max(x, y)
FMax(x, y) == IF FLeq(y, x) THEN x ELSE y

\* int(y) for a double y of 100 * x, in hundredths: truncation towards zero
Truncated(y) ==
    IF y[1] = 0 THEN 0
    ELSE IF y[1] > 0
    THEN (IF y[2] >= 0 THEN y[1] \div 100 ELSE (y[1] \div 100) - 1)
    ELSE (IF y[2] <= 0 THEN 0 - ((0 - y[1]) \div 100) ELSE 1 - ((0 - y[1]) \div 100))

\* int(100 * x): the product is rounded to a double, then truncated
Int100(x) == Truncated(FMulInt(100, x))

\* round(x, 2): the double of the nearest hundredth
Round2(x) == Flt(x[1])

\* the hundredth a double is nearest to
Tick(x) == x[1]

\* list.pop(i) / list.insert(i, x) on a sequence, i a Python index
Pop(s, i) == [k \in 1..(Len(s) - 1) |-> IF k <= i THEN s[k] ELSE s[k + 1]]
Insert(s, i, x) ==
    [k \in 1..(Len(s) + 1) |-> IF k <= i THEN s[k] ELSE IF k = i + 1 THEN x ELSE s[k - 1]]

\* all lists of at most n intervals <<start, end>> within lo..hi with
\* start <= end and each start >= the previous end
RECURSIVE OrderedIntervals(_, _, _)
OrderedIntervals(n, lo, hi) ==
    IF n = 0 THEN {<<>>}
    ELSE {<<>>} \cup UNION {{<<<<s, e>>>> \o r : r \in OrderedIntervals(n - 1, e, hi)} :
                             <<s, e>> \in {p \in (lo..hi) \X (lo..hi) : p[1] <= p[2]}}

DefaultParams ==
    [threshold |-> 0, fix_word_ts_with_SAD |-> FALSE, max_word_ts_length_in_sec |-> 0,
     SAD_threshold_for_word_ts |-> 0, lenient_overlap_WDER |-> FALSE,
     asr_based_vad |-> FALSE]

(***************************************************************************)
(* Speech-activity / silence merger                                        *)
(***************************************************************************)

\* word_ts[count][0] - word_ts[count-1][1] <= self.nonspeech_threshold, on
\* the doubles of the two times and of the threshold
GapWithin(stt, end, thr) == FLeq(FSub(Flt(stt), Flt(end)), Flt(thr))

\* the while loop of _get_speech_labels_from_decoded_prediction, with a
\* double decrement after a merge
RECURSIVE MergeLoopSkip(_, _, _)
MergeLoopSkip(ts, count, thr) ==
    IF count > 0
    THEN IF Len(ts) > 1 /\ GapWithin(ts[count + 1][1], ts[count][2], thr)
         THEN LET trangeB == ts[count + 1]
                  trangeA == ts[count]
                  popped == Pop(Pop(ts, count), count - 1)
              IN MergeLoopSkip(Insert(popped, count - 1, <<trangeA[1], trangeB[2]>>),
                               count - 2, thr)
         ELSE MergeLoopSkip(ts, count - 1, thr)
    ELSE ts

\* the while loop: count runs from len - 1 down to 1, merging in place
RECURSIVE MergeLoop(_, _, _)
MergeLoop(ts, count, thr) ==
    IF count > 0
    THEN IF Len(ts) > 1 /\ GapWithin(ts[count + 1][1], ts[count][2], thr)
         THEN LET trangeB == ts[count + 1]
                  trangeA == ts[count]
                  popped == Pop(Pop(ts, count), count - 1)
              IN MergeLoop(Insert(popped, count - 1, <<trangeA[1], trangeB[2]>>),
                           count - 1, thr)
         ELSE MergeLoop(ts, count - 1, thr)
    ELSE ts

get_speech_labels_from_decoded_prediction(input_word_ts, thr) ==
    IF input_word_ts = <<>>
    THEN <<>>
    ELSE MergeLoop(input_word_ts, Len(input_word_ts) - 1, thr)

InitMerge ==
    /\ ExtIdle
    /\ pc = "save_SAD_labels_list"
    /\ word_ts \in OrderedIntervals(MergeMaxWords, 0, MergeMaxTime)
    /\ \E t \in 0..MaxThreshold, a \in BOOLEAN :
           params = [DefaultParams EXCEPT !.threshold = t, !.asr_based_vad = a]
    /\ speech_labels = <<>>
    /\ frame_VAD = <<>>
    /\ word_ts_list = <<>>
    /\ AlignIdle
    /\ WDERIdle

\* save_SAD_labels_list, one utterance: if self.params['asr_based_vad'] the
\* word intervals are merged and written, otherwise nothing is
SaveSADLabels ==
    /\ pc = "save_SAD_labels_list"
    /\ IF params.asr_based_vad
       THEN /\ speech_labels' =
                   get_speech_labels_from_decoded_prediction(word_ts, params.threshold)
            /\ pc' = "merged"
       ELSE /\ speech_labels' = speech_labels
            /\ pc' = "save_returned"
    /\ UNCHANGED <<extVars, params, word_ts, frame_VAD, word_ts_list, alignVars, wderVars>>

\* the merger run again on its own output
MergeAgain ==
    /\ pc = "merged"
    /\ speech_labels' = get_speech_labels_from_decoded_prediction(speech_labels, params.threshold)
    /\ pc' = "remerged"
    /\ UNCHANGED <<extVars, params, word_ts, frame_VAD, word_ts_list, alignVars, wderVars>>

NextMerge == SaveSADLabels \/ MergeAgain

SpecMerge == InitMerge /\ [][NextMerge]_vars

\* the intervals that open a maximal run: the first one and every one whose
\* gap to its predecessor exceeds the threshold
RunStarts(L, thr) == {i \in 1..Len(L) : i = 1 \/ L[i][1] - L[i - 1][2] > thr}

\* the same with the gap and the comparison computed in doubles
FloatRunStarts(L, thr) ==
    {i \in 1..Len(L) : i = 1 \/ ~GapWithin(L[i][1], L[i - 1][2], thr)}

\* the runs that open at the intervals of starts, each replaced by
\* [start of its first interval, end of its last interval]
RunLast(L, starts, i) ==
    CHOOSE k \in i..Len(L) :
        /\ \A m \in (i + 1)..k : m \notin starts
        /\ k = Len(L) \/ (k + 1) \in starts
NthRunStart(starts, r) ==
    CHOOSE i \in starts : Cardinality({x \in starts : x <= i}) = r
RunsOf(L, starts) ==
    [r \in 1..Cardinality(starts) |->
        LET i == NthRunStart(starts, r)
        IN <<L[i][1], L[RunLast(L, starts, i)][2]>>]
MaximalRuns(L, thr) == RunsOf(L, RunStarts(L, thr))

\* C1: the merger returns the maximal runs of intervals whose consecutive
\* gaps are <= threshold, each replaced by [first start, last end]; the
\* empty list gives the empty list
MergeIsMaximalRuns ==
    pc = "merged" => speech_labels = MaximalRuns(word_ts, params.threshold)

\* what the merger returns: the maximal runs of intervals whose gap,
\* subtracted in doubles, is <= the double of the threshold; a gap equal to
\* the threshold may or may not pass ([0,1],[1.1,2],[2.05,3] with threshold
\* 0.1 gives [0,1],[1.1,3], since 1.1 - 1 > 0.1 in doubles)
MergeIsMaximalRunsOfFloatGaps ==
    /\ pc = "merged" => speech_labels = RunsOf(word_ts, FloatRunStarts(word_ts, params.threshold))
    /\ get_speech_labels_from_decoded_prediction(
           <<<<0, 100>>, <<110, 200>>, <<205, 300>>>>, 10) = <<<<0, 100>>, <<110, 300>>>>

\* a run of three intervals (gaps 2 and 1, threshold 2) cascades into one
\* interval
MergeCascadeWitness ==
    /\ pc = "merged"
    /\ Len(word_ts) = 3
    /\ params.threshold = 2
    /\ word_ts[2][1] - word_ts[1][2] = 2
    /\ word_ts[3][1] - word_ts[2][2] = 1
    /\ speech_labels = <<<<word_ts[1][1], word_ts[3][2]>>>>

\* two intervals whose gap equals the threshold are left apart
MergeTieNotMergedWitness ==
    /\ pc = "merged"
    /\ Len(word_ts) = 2
    /\ word_ts[2][1] - word_ts[1][2] = params.threshold
    /\ speech_labels = word_ts

\* C2: the merge is idempotent, never lengthens the list, and returns a
\* list whose gaps all exceed the threshold unchanged
MergeIdempotentShrinking ==
    /\ pc \in {"merged", "remerged"} => Len(speech_labels) <= Len(word_ts)
    /\ (pc = "merged" /\ \A i \in 2..Len(word_ts) :
                            word_ts[i][1] - word_ts[i - 1][2] > params.threshold)
           => speech_labels = word_ts
    /\ pc = "remerged"
           => speech_labels = get_speech_labels_from_decoded_prediction(word_ts, params.threshold)

\* a list that shrank in the first pass has been merged a second time
MergeIdempotentWitness ==
    /\ pc = "remerged"
    /\ Len(word_ts) = 3
    /\ Len(speech_labels) = 2
(***************************************************************************)
(* Silence extension of word boundaries                                    *)
(***************************************************************************)

\* the while loop of closest_silence_start: the first index >= c that is
\* past the trace or whose score is below the threshold
\* vad_frames[c]; a negative index counts from the end of the list
FrameAt(vad_frames, c) ==
    IF c >= 0 THEN vad_frames[c + 1] ELSE vad_frames[Len(vad_frames) + c + 1]

RECURSIVE SilenceScan(_, _, _)
SilenceScan(c, vad_frames, thr) ==
    IF c < Len(vad_frames)
    THEN IF FrameAt(vad_frames, c) < thr THEN c ELSE SilenceScan(c + 1, vad_frames, thr)
    ELSE c

\* returns round(c / 100.0, 2) seconds, that is c ticks
closest_silence_start(vad_index_word_end, vad_frames, p) ==
    LET c == SilenceScan(vad_index_word_end + Offset, vad_frames,
                         p.SAD_threshold_for_word_ts)
    IN Min(Len(vad_frames) - 1, c)

\* the extended length without the floor at the original word length
FixedWordLenNoFloor(vad_est_len, word_len, len_to_next_word, max_len) ==
    Min(max_len, Min(vad_est_len, len_to_next_word))

\* the extended length without the distance to the next word
FixedWordLenNoNext(vad_est_len, word_len, len_to_next_word, max_len) ==
    Max(Min(max_len, vad_est_len), word_len)

\* the extended length without the cap
FixedWordLenNoCap(vad_est_len, word_len, len_to_next_word, max_len) ==
    Max(Min(vad_est_len, len_to_next_word), word_len)

\* fixed_word_len = max(min(max_word_ts_length_in_sec,
\*                          min(vad_est_len, len_to_next_word)), word_len)
FixedWordLen(vad_est_len, word_len, len_to_next_word, max_len) ==
    Max(Min(max_len, Min(vad_est_len, len_to_next_word)), word_len)

\* the body of the loop over the words of one utterance, for Python index k.
\* vad_index_word_end = int(100 * word_ts[1]) is truncated from the double
\* product; the three lengths are rounded to two decimals; the emitted end
\* word_ts[0] + fixed_word_len is the unrounded double sum
EnhancedWordTs(seq, k, vad_frames, p) ==
    LET ts == seq[k + 1]
        vad_index_word_end == Int100(Flt(ts[2]))
        closest_sil_stt == closest_silence_start(vad_index_word_end, vad_frames, p)
        vad_est_len == Tick(Round2(FSub(Flt(closest_sil_stt), Flt(ts[1]))))
        word_len == Tick(Round2(FSub(Flt(ts[2]), Flt(ts[1]))))
        len_to_next_word == Tick(Round2(FSub(FSub(Flt(seq[k + 2][1]), Flt(ts[1])), Flt(1))))
        fixed_word_len == FixedWordLen(vad_est_len, word_len, len_to_next_word,
                                       p.max_word_ts_length_in_sec)
    IN <<Flt(ts[1]), FAdd(Flt(ts[1]), Flt(fixed_word_len))>>

\* get_enhanced_word_ts_list for one utterance: only the words with
\* k < N - 1 are appended to the buffer
get_enhanced_word_ts_list(seq, vad_frames, p) ==
    [i \in 1..(Len(seq) - 1) |-> EnhancedWordTs(seq, i - 1, vad_frames, p)]

\* traces of at most n frames with scores 0 and 1, at most one frame at 0
VadTraces(n) ==
    UNION {{[f \in 1..len |-> 1]} \cup
           {[f \in 1..len |-> IF f = q THEN 0 ELSE 1] : q \in 1..len} : len \in 0..n}

InitEnhance ==
    /\ ExtIdle
    /\ pc = "get_enhanced_word_ts_list"
    /\ word_ts \in OrderedIntervals(EnhMaxWords, 0, EnhMaxTime)
    /\ frame_VAD \in VadTraces(MaxFrames)
    /\ \E m \in 0..MaxWordLen, t \in 1..2 :
           params = [DefaultParams EXCEPT !.fix_word_ts_with_SAD = TRUE,
                                          !.max_word_ts_length_in_sec = m,
                                          !.SAD_threshold_for_word_ts = t]
    /\ speech_labels = <<>>
    /\ word_ts_list = <<>>
    /\ AlignIdle
    /\ WDERIdle

\* get_enhanced_word_ts_list applied to the utterance
Enhance ==
    /\ pc = "get_enhanced_word_ts_list"
    /\ word_ts_list' = get_enhanced_word_ts_list(word_ts, frame_VAD, params)
    /\ pc' = "enhanced"
    /\ UNCHANGED <<extVars, params, word_ts, speech_labels, frame_VAD, alignVars, wderVars>>

NextEnhance == Enhance

SpecEnhance == InitEnhance /\ [][NextEnhance]_vars

\* word times over the wider range 0..EnhWideMaxTime under every trace of
\* VadTraces: the traces shorter than the end of a word plus the offset cut
\* the silence candidate down to their last frame, before the end of the
\* word or before its start
InitEnhanceWide ==
    /\ ExtIdle
    /\ pc = "get_enhanced_word_ts_list"
    /\ word_ts \in OrderedIntervals(EnhMaxWords, 0, EnhWideMaxTime)
    /\ frame_VAD \in VadTraces(MaxFrames)
    /\ \E m \in 0..MaxWordLen, t \in 1..2 :
           params = [DefaultParams EXCEPT !.fix_word_ts_with_SAD = TRUE,
                                          !.max_word_ts_length_in_sec = m,
                                          !.SAD_threshold_for_word_ts = t]
    /\ speech_labels = <<>>
    /\ word_ts_list = <<>>
    /\ AlignIdle
    /\ WDERIdle

SpecEnhanceWide == InitEnhanceWide /\ [][NextEnhance]_vars

\* C6 as stated: every emitted word keeps its start and its end, the double
\* word_ts[0] + fixed_word_len, is not before the original end
ExtensionNeverShrinks ==
    pc = "enhanced" =>
        \A i \in 1..Len(word_ts_list) :
            /\ word_ts_list[i][1] = Flt(word_ts[i][1])
            /\ FLeq(Flt(word_ts[i][2]), word_ts_list[i][2])

\* C6 amended: every emitted word keeps its start, and its end rounded to
\* two decimals is not before the original end
ExtensionNeverShrinksRounded ==
    pc = "enhanced" =>
        \A i \in 1..Len(word_ts_list) :
            /\ word_ts_list[i][1] = Flt(word_ts[i][1])
            /\ Tick(Round2(word_ts_list[i][2])) >= word_ts[i][2]

\* a word of positive length whose silence candidate, the last frame of a
\* short trace, lies before the end of the word: the floor at the original
\* word length keeps the end where it was
ExtensionNeverShrinksWitness ==
    /\ pc = "enhanced"
    /\ \E i \in 1..Len(word_ts_list) :
           /\ word_ts[i][1] < word_ts[i][2]
           /\ closest_silence_start(Int100(Flt(word_ts[i][2])), frame_VAD, params)
                  < word_ts[i][2]
           /\ word_ts[i][2] - word_ts[i][1] < params.max_word_ts_length_in_sec
           /\ Tick(Round2(word_ts_list[i][2])) = word_ts[i][2]

\* C7 as stated: every emitted word ends at or before the start of the
\* following word
ExtensionStopsAtNextWord ==
    pc = "enhanced" =>
        \A i \in 1..Len(word_ts_list) :
            FLeq(word_ts_list[i][2], Flt(word_ts[i + 1][1]))

\* C7 amended: the end of every emitted word, rounded to two decimals, is at
\* or before the start of the following word
ExtensionStopsAtNextWordRounded ==
    pc = "enhanced" =>
        \A i \in 1..Len(word_ts_list) :
            Tick(Round2(word_ts_list[i][2])) <= word_ts[i + 1][1]

\* a word extended up to one tick before the next word although the trace
\* shows activity beyond it
ExtensionStopsAtNextWordWitness ==
    /\ pc = "enhanced"
    /\ \E i \in 1..Len(word_ts_list) :
           /\ Tick(Round2(word_ts_list[i][2])) > word_ts[i][2]
           /\ Tick(Round2(word_ts_list[i][2])) = word_ts[i + 1][1] - 1
           /\ closest_silence_start(Int100(Flt(word_ts[i][2])), frame_VAD, params)
                  > word_ts[i + 1][1]

\* the length end - start of the i-th emitted word, to two decimals
EmittedLen(i) == Tick(Round2(FSub(word_ts_list[i][2], word_ts_list[i][1])))

\* C8 as stated: no emitted word is longer than max_word_ts_length_in_sec
ExtensionWithinCap ==
    pc = "enhanced" =>
        \A i \in 1..Len(word_ts_list) :
            EmittedLen(i) <= params.max_word_ts_length_in_sec

\* C8 amended: an emitted word is no longer than the larger of the cap and
\* its original length, so a word that was extended is within the cap
ExtensionWithinCapOrOriginal ==
    pc = "enhanced" =>
        \A i \in 1..Len(word_ts_list) :
            EmittedLen(i) <= Max(params.max_word_ts_length_in_sec,
                                 word_ts[i][2] - word_ts[i][1])

\* a word extended exactly to the cap although silence and the next word
\* are further away
ExtensionWithinCapWitness ==
    /\ pc = "enhanced"
    /\ \E i \in 1..Len(word_ts_list) :
           /\ Tick(Round2(word_ts_list[i][2])) > word_ts[i][2]
           /\ EmittedLen(i) = params.max_word_ts_length_in_sec
           /\ word_ts[i + 1][1] - word_ts[i][1] - 1 > params.max_word_ts_length_in_sec
           /\ closest_silence_start(Int100(Flt(word_ts[i][2])), frame_VAD, params)
                  - word_ts[i][1] > params.max_word_ts_length_in_sec
(***************************************************************************)
(* Alignment and transcript assembly (write_json_and_transcript)           *)
(***************************************************************************)

\* lists of at most n speaker intervals "start end speaker" within lo..hi,
\* ordered by start, each with start < end and not overlapping the previous
RECURSIVE LabelSeqs(_, _, _)
LabelSeqs(n, lo, hi) ==
    IF n = 0 THEN {<<>>}
    ELSE {<<>>} \cup
         UNION {{<<[stt |-> b[1], end |-> b[2], spk |-> sp]>> \o r :
                    r \in LabelSeqs(n - 1, b[2], hi)} :
                <<b, sp>> \in {q \in (lo..hi) \X (lo..hi) : q[1] < q[2]} \X Speakers}

\* a pointer that stays on the interval it is on
NextIdxNoAdvance(i, n) == Min(i, n - 1)

\* idx += 1 without the clamp at the last interval
NextIdxNoClamp(i, n) == i + 1

\* idx += 1; idx = min(idx, len(labels) - 1)
NextIdx(i, n) == Min(i + 1, n - 1)

\* print_time: a speaker-turn marker appended to string_out
TimeItem(i, lab) ==
    [kind |-> "time", idx |-> i, speaker |-> lab.spk,
     start_point |-> lab.stt, end_point |-> lab.end]

\* print_word: a word appended to string_out
WordItem(w) == [kind |-> "word", word |-> w]

\* stt_sec, end_sec = round(stt, 2), round(end, 2), then add_json_to_dict:
\* the entry appended to riva_dict['words'] for words[w]
WordEntry(w, ts, spk) ==
    [word |-> w, start_time |-> Tick(Round2(ts[1])), end_time |-> Tick(Round2(ts[2])),
     speaker_label |-> spk]

\* the timestamps of a word list as the doubles they are
FloatTs(seq) == [i \in 1..Len(seq) |-> <<Flt(seq[i][1]), Flt(seq[i][2])>>]

\* word_pos = (stt + end) / 2; word_pos < float(end_point).  Halving a
\* double is exact, so the test is the rounded sum against twice the end
\* point
WordPosBefore(ts, end_pt) == FLess(FAdd(ts[1], ts[2]), FSigned(2, Flt(end_pt)))

InitAlign ==
    /\ ExtIdle
    /\ pc = "write_json_and_transcript"
    /\ word_ts \in OrderedIntervals(AlignMaxWords, 0, AlignMaxTime)
    /\ labels \in LabelSeqs(MaxLabels, 0, AlignMaxTime)
    /\ \/ /\ params = DefaultParams
          /\ frame_VAD = <<>>
       \/ /\ params = [DefaultParams EXCEPT !.fix_word_ts_with_SAD = TRUE,
                                            !.max_word_ts_length_in_sec = AlignMaxWordLen,
                                            !.SAD_threshold_for_word_ts = 1]
          /\ frame_VAD \in {[f \in 1..n |-> 1] : n \in {0, AlignFrames}}
    /\ speech_labels = <<>>
    /\ word_ts_list = <<>>
    /\ j = 0
    /\ idx = 0
    /\ end_point = 0
    /\ speaker = "none"
    /\ riva_words = <<>>
    /\ string_out = <<>>
    /\ WDERIdle

\* if self.params['fix_word_ts_with_SAD']: word_ts_list is replaced by the
\* enhanced list
FixWordTs ==
    /\ pc = "write_json_and_transcript"
    /\ params.fix_word_ts_with_SAD
    /\ word_ts_list' = get_enhanced_word_ts_list(word_ts, frame_VAD, params)
    /\ pc' = "align_start"
    /\ UNCHANGED <<extVars, params, word_ts, speech_labels, frame_VAD, alignVars, wderVars>>

\* otherwise the word timestamps are used as given
KeepWordTs ==
    /\ pc = "write_json_and_transcript"
    /\ ~params.fix_word_ts_with_SAD
    /\ word_ts_list' = FloatTs(word_ts)
    /\ pc' = "align_start"
    /\ UNCHANGED <<extVars, params, word_ts, speech_labels, frame_VAD, alignVars, wderVars>>

\* start_point, end_point, speaker = labels[0].split(); the first marker is
\* printed and the pointer is set to 0
AlignStart ==
    /\ pc = "align_start"
    /\ IF labels = <<>>
       THEN /\ pc' = "IndexError"
            /\ UNCHANGED <<idx, j, end_point, speaker, string_out>>
       ELSE /\ end_point' = labels[1].end
            /\ speaker' = labels[1].spk
            /\ string_out' = <<TimeItem(0, labels[1])>>
            /\ idx' = 0
            /\ j' = 0
            /\ pc' = "align_loop"
    /\ UNCHANGED <<extVars, params, word_ts, speech_labels, frame_VAD, word_ts_list, labels,
                   riva_words, wderVars>>

\* loop body, word_pos < float(end_point): the word goes to the current
\* speaker
AlignWordSame ==
    /\ pc = "align_loop"
    /\ j < Len(word_ts_list)
    /\ LET ts == word_ts_list[j + 1]
       IN /\ WordPosBefore(ts, end_point)
          /\ string_out' = Append(string_out, WordItem(j + 1))
          /\ riva_words' = Append(riva_words, WordEntry(j + 1, ts, speaker))
    /\ j' = j + 1
    /\ UNCHANGED <<pc, extVars, params, word_ts, speech_labels, frame_VAD, word_ts_list, labels,
                   idx, end_point, speaker, wderVars>>

\* loop body, else branch: the pointer moves to the next interval, a marker
\* is printed and the word goes to that interval's speaker
AlignWordNext ==
    /\ pc = "align_loop"
    /\ j < Len(word_ts_list)
    /\ LET ts == word_ts_list[j + 1]
           ni == NextIdx(idx, Len(labels))
       IN /\ ~WordPosBefore(ts, end_point)
          /\ idx' = ni
          /\ IF ni >= Len(labels)
             THEN /\ pc' = "IndexError"
                  /\ UNCHANGED <<j, end_point, speaker, string_out, riva_words>>
             ELSE /\ end_point' = labels[ni + 1].end
                  /\ speaker' = labels[ni + 1].spk
                  /\ string_out' = string_out \o <<TimeItem(ni, labels[ni + 1]),
                                                   WordItem(j + 1)>>
                  /\ riva_words' = Append(riva_words,
                                          WordEntry(j + 1, ts, labels[ni + 1].spk))
                  /\ j' = j + 1
                  /\ pc' = pc
    /\ UNCHANGED <<extVars, params, word_ts, speech_labels, frame_VAD, word_ts_list, labels,
                   wderVars>>

\* the loop over the words is exhausted: write_and_log
AlignDone ==
    /\ pc = "align_loop"
    /\ j = Len(word_ts_list)
    /\ pc' = "done"
    /\ UNCHANGED <<extVars, params, word_ts, speech_labels, frame_VAD, word_ts_list, alignVars,
                   wderVars>>

NextAlign == FixWordTs \/ KeepWordTs \/ AlignStart \/ AlignWordSame \/ AlignWordNext
                 \/ AlignDone

SpecAlign == InitAlign /\ [][NextAlign]_vars

\* C3: a word whose midpoint lies inside a speaker interval carries that
\* interval's speaker, and a word whose midpoint lies past the end of the
\* last interval carries the last interval's speaker
WordGetsSpeakerAtMidpoint ==
    \A i \in 1..Len(riva_words) :
        LET mid2 == Tick(word_ts_list[i][1]) + Tick(word_ts_list[i][2])
            last == labels[Len(labels)]
        IN /\ \A l \in 1..Len(labels) :
                  (2 * labels[l].stt < mid2 /\ mid2 < 2 * labels[l].end)
                      => riva_words[i].speaker_label = labels[l].spk
           /\ mid2 > 2 * last.end => riva_words[i].speaker_label = last.spk

\* C4: with at least one speaker interval the pointer starts at 0, stays
\* within [0, len(labels) - 1] without an index error, never decreases and
\* advances by at most one per word
PointerSaturates ==
    /\ [](pc = "align_start" => idx = 0)
    /\ [](labels # <<>> => (idx >= 0 /\ idx <= Len(labels) - 1 /\ pc # "IndexError"))
    /\ [][idx' = idx \/ (idx' = idx + 1 /\ j' = j + 1)]_vars

\* the last interval has been announced twice: the words ran past all
\* intervals and the pointer stayed on the last one
PointerSaturatesWitness ==
    /\ pc = "done"
    /\ Len(labels) >= 2
    /\ idx = Len(labels) - 1
    /\ \E a, b \in 1..Len(string_out) :
           /\ a < b
           /\ string_out[a].kind = "time" /\ string_out[a].idx = idx
           /\ string_out[b].kind = "time" /\ string_out[b].idx = idx

\* C5: the words list of the record has one entry per ASR word of the
\* utterance, in input order, whether silence-extension is on or off
RecordHasEveryWord ==
    pc = "done" =>
        /\ Len(riva_words) = Len(word_ts)
        /\ \A i \in 1..Len(riva_words) : riva_words[i].word = i
(***************************************************************************)
(* Word-level diarization error rate (get_WDER)                            *)
(***************************************************************************)

\* an overlap test that also accepts intervals that only touch
isOverlapClosed(rangeA, rangeB) == rangeA[2] >= rangeB[1] /\ rangeB[2] >= rangeA[1]

\* isOverlapArray, one row: (endA > startB) & (endB > startA)
isOverlap(rangeA, rangeB) == rangeA[2] > rangeB[1] /\ rangeB[2] > rangeA[1]

\* getOverlapRangeArray, one row: right - left, the difference of two
\* doubles, right the smaller of the ends and left the larger of the starts
getOverlapRange(rangeA, rangeB) ==
    FSub(Flt(Min(rangeA[2], rangeB[2])), Flt(Max(rangeA[1], rangeB[1])))

\* ref_label_array and the tiled word range
RefRange(lab) == <<lab.stt, lab.end>>
WordRange(w) == <<w.start_time, w.end_time>>

\* ovl_bool and ovl_length, one entry per reference interval
OvlBool(refs, w) == [i \in 1..Len(refs) |-> isOverlap(RefRange(refs[i]), WordRange(w))]
OvlLength(refs, w) ==
    [i \in 1..Len(refs) |-> getOverlapRange(RefRange(refs[i]), WordRange(w))]

\* np.where(mask == True)[0]: the Python indices of the true entries
RECURSIVE Where(_, _)
Where(mask, from) ==
    IF from > Len(mask) THEN <<>>
    ELSE (IF mask[from] THEN <<from - 1>> ELSE <<>>) \o Where(mask, from + 1)

\* arr[mask]: the entries selected by a boolean mask
Masked(arr, mask) == LET w == Where(mask, 1) IN [k \in 1..Len(w) |-> arr[w[k] + 1]]

\* np.max of a non-empty list of doubles
RECURSIVE ListMax(_)
ListMax(list) ==
    IF Len(list) = 1 THEN list[1] ELSE FMax(list[1], ListMax(Tail(list)))

\* the Python index of the last maximum
ArgMaxLast(list) ==
    CHOOSE k \in 0..(Len(list) - 1) :
        /\ list[k + 1] = ListMax(list)
        /\ \A m \in (k + 1)..(Len(list) - 1) : list[m + 1] # ListMax(list)

\* np.argmax: the Python index of the first maximum
ArgMax(list) ==
    CHOOSE k \in 0..(Len(list) - 1) :
        /\ list[k + 1] = ListMax(list)
        /\ \A m \in 0..(k - 1) : list[m + 1] # ListMax(list)

\* every overlapping interval, whatever its overlap length
AllSubIdx(list) == [k \in 1..Len(list) |-> k - 1]

\* np.where(ovl_length_list == np.max(ovl_length_list))[0]
MaxOvlSubIdx(list) == Where([k \in 1..Len(list) |-> list[k] = ListMax(list)], 1)

\* the strict branch: int(est_spk_label == ref_spk_label) for the first
\* overlapping interval of maximum overlap
StrictCorrect(refs, w, est_spk_label) ==
    LET ovl_bool == OvlBool(refs, w)
        max_ovl_sub_idx == ArgMax(Masked(OvlLength(refs, w), ovl_bool))
        max_ovl_idx == Where(ovl_bool, 1)[max_ovl_sub_idx + 1]
    IN IF est_spk_label = refs[max_ovl_idx + 1].spk THEN 1 ELSE 0

\* a lenient branch that looks at the last interval of maximum overlap only
LenientCorrectOfLastMax(refs, w, est_spk_label) ==
    LET ovl_bool == OvlBool(refs, w)
        max_ovl_sub_idx == ArgMaxLast(Masked(OvlLength(refs, w), ovl_bool))
        max_ovl_idx == Where(ovl_bool, 1)[max_ovl_sub_idx + 1]
    IN IF est_spk_label = refs[max_ovl_idx + 1].spk THEN 1 ELSE 0

\* the lenient branch: est_spk_label in ref_spk_labels
LenientCorrect(refs, w, est_spk_label) ==
    LET ovl_bool == OvlBool(refs, w)
        max_ovl_sub_idx == MaxOvlSubIdx(Masked(OvlLength(refs, w), ovl_bool))
        max_ovl_idx == [k \in 1..Len(max_ovl_sub_idx) |->
                            Where(ovl_bool, 1)[max_ovl_sub_idx[k] + 1]]
        ref_spk_labels == {refs[max_ovl_idx[k] + 1].spk : k \in 1..Len(max_ovl_idx)}
    IN IF est_spk_label \in ref_spk_labels THEN 1 ELSE 0

\* lists of at most n reference intervals within 0..hi, each with
\* start < end, in the order of their start times; they may overlap
RECURSIVE RefSeqs(_, _, _)
RefSeqs(n, lo, hi) ==
    IF n = 0 THEN {<<>>}
    ELSE {<<>>} \cup
         UNION {{<<[stt |-> b[1], end |-> b[2], spk |-> sp]>> \o r :
                    r \in RefSeqs(n - 1, b[1], hi)} :
                <<b, sp>> \in {q \in (lo..hi) \X (0..hi) : q[1] < q[2]} \X RefSpeakers}

\* speaker mappings of the DER scoring: hypothesis speakers to speakers of
\* the reference
Mappings(refs) ==
    UNION {[D -> RefSpeakers] : D \in SUBSET Speakers}

\* the word lists of at most n words within lo..hi: start <= end, and no
\* word starts before the end of the word before it
RECURSIVE WordLists(_, _, _)
WordLists(n, lo, hi) ==
    IF n = 0 THEN {<<>>}
    ELSE {<<>>} \cup
         UNION {{<<[start_time |-> t[1], end_time |-> t[2], speaker_label |-> sp]>> \o r :
                    r \in WordLists(n - 1, t[2], hi)} :
                <<t, sp>> \in {q \in (lo..hi) \X (lo..hi) : q[1] <= q[2]} \X Speakers}

\* the alignment state of an utterance whose word list is words_list
AlignedAs(words_list) ==
    /\ labels = <<>>
    /\ j = 0
    /\ idx = 0
    /\ end_point = 0
    /\ speaker = "none"
    /\ riva_words = words_list
    /\ string_out = <<>>

InitWDER ==
    /\ ExtIdle
    /\ pc = "get_WDER"
    /\ ref_labels \in RefSeqs(MaxRef, 0, WderMaxTime)
    /\ mapping_dict \in Mappings(ref_labels)
    /\ \E l \in BOOLEAN : params = [DefaultParams EXCEPT !.lenient_overlap_WDER = l]
    /\ \E words_list \in WordLists(MaxWderWords, 0, WderMaxTime) :
           /\ AlignedAs(words_list)
           /\ total_word_count = Len(words_list)
    /\ wdict = NoWord
    /\ wpos = 0
    /\ correct_word_count = 0
    /\ wder = <<>>
    /\ word_ts = <<>>
    /\ speech_labels = <<>>
    /\ frame_VAD = <<>>
    /\ word_ts_list = <<>>

WDERUnchanged ==
    UNCHANGED <<extVars, params, word_ts, speech_labels, frame_VAD, word_ts_list, alignVars,
                ref_labels, mapping_dict, total_word_count, wder>>

\* loop body: speaker_label not in mapping_dict, continue
WDERUnmapped ==
    /\ pc = "get_WDER"
    /\ wpos < total_word_count
    /\ \E w \in {riva_words[wpos + 1]} :
           /\ w.speaker_label \notin DOMAIN mapping_dict
           /\ wdict' = w
    /\ wpos' = wpos + 1
    /\ UNCHANGED <<pc, correct_word_count>>
    /\ WDERUnchanged

\* loop body: labels[idx].split() with idx = 0 is read for every word whose
\* speaker is mapped, so a reference without intervals raises IndexError
WDERNoLabels ==
    /\ pc = "get_WDER"
    /\ wpos < total_word_count
    /\ ref_labels = <<>>
    /\ \E w \in {riva_words[wpos + 1]} :
           /\ w.speaker_label \in DOMAIN mapping_dict
           /\ wdict' = w
    /\ pc' = "IndexError"
    /\ UNCHANGED <<wpos, correct_word_count>>
    /\ WDERUnchanged

\* loop body: np.any(ovl_bool) == False, continue
WDERNoOverlap ==
    /\ pc = "get_WDER"
    /\ wpos < total_word_count
    /\ ref_labels # <<>>
    /\ \E w \in {riva_words[wpos + 1]} :
           /\ w.speaker_label \in DOMAIN mapping_dict
           /\ \A i \in 1..Len(ref_labels) : ~OvlBool(ref_labels, w)[i]
           /\ wdict' = w
    /\ wpos' = wpos + 1
    /\ UNCHANGED <<pc, correct_word_count>>
    /\ WDERUnchanged

\* loop body: the lenient branch
WDERLenient ==
    /\ pc = "get_WDER"
    /\ wpos < total_word_count
    /\ params.lenient_overlap_WDER
    /\ \E w \in {riva_words[wpos + 1]} :
           /\ w.speaker_label \in DOMAIN mapping_dict
           /\ \E i \in 1..Len(ref_labels) : OvlBool(ref_labels, w)[i]
           /\ wdict' = w
           /\ correct_word_count' = correct_word_count
                  + LenientCorrect(ref_labels, w, mapping_dict[w.speaker_label])
    /\ wpos' = wpos + 1
    /\ UNCHANGED pc
    /\ WDERUnchanged

\* loop body: the strict branch
WDERStrict ==
    /\ pc = "get_WDER"
    /\ wpos < total_word_count
    /\ ~params.lenient_overlap_WDER
    /\ \E w \in {riva_words[wpos + 1]} :
           /\ w.speaker_label \in DOMAIN mapping_dict
           /\ \E i \in 1..Len(ref_labels) : OvlBool(ref_labels, w)[i]
           /\ wdict' = w
           /\ correct_word_count' = correct_word_count
                  + StrictCorrect(ref_labels, w, mapping_dict[w.speaker_label])
    /\ wpos' = wpos + 1
    /\ UNCHANGED pc
    /\ WDERUnchanged

\* the fraction of correct words instead of the fraction of wrong ones
WDERFractionOfCorrect(correct, total) == <<correct, total>>

\* 1 - (correct / total) for total > 0, as the fraction <<numerator, denominator>>
WDERFraction(correct, total) == <<total - correct, total>>

\* wder = 1 - (correct_word_count / total_word_count), which divides by
\* zero for an utterance without words
WDERFinish ==
    /\ pc = "get_WDER"
    /\ wpos = total_word_count
    /\ IF total_word_count = 0
       THEN pc' = "ZeroDivisionError" /\ wder' = wder
       ELSE /\ wder' = WDERFraction(correct_word_count, total_word_count)
            /\ pc' = "wder_done"
    /\ UNCHANGED <<extVars, params, word_ts, speech_labels, frame_VAD, word_ts_list, alignVars,
                   ref_labels, mapping_dict, total_word_count, wdict, wpos,
                   correct_word_count>>

NextWDER == WDERUnmapped \/ WDERNoLabels \/ WDERNoOverlap \/ WDERLenient \/ WDERStrict
                \/ WDERFinish

SpecWDER == InitWDER /\ [][NextWDER]_vars

\* reference intervals and words over the wider range 0..WderWideMaxTime,
\* at most WderWideMaxWords words
InitWDERWide ==
    /\ ExtIdle
    /\ pc = "get_WDER"
    /\ ref_labels \in RefSeqs(MaxRef, 0, WderWideMaxTime)
    /\ mapping_dict \in Mappings(ref_labels)
    /\ \E l \in BOOLEAN : params = [DefaultParams EXCEPT !.lenient_overlap_WDER = l]
    /\ \E words_list \in WordLists(WderWideMaxWords, 0, WderWideMaxTime) :
           /\ AlignedAs(words_list)
           /\ total_word_count = Len(words_list)
    /\ wdict = NoWord
    /\ wpos = 0
    /\ correct_word_count = 0
    /\ wder = <<>>
    /\ word_ts = <<>>
    /\ speech_labels = <<>>
    /\ frame_VAD = <<>>
    /\ word_ts_list = <<>>

SpecWDERWide == InitWDERWide /\ [][NextWDER]_vars

\* the overlap test and the overlap length of reference interval i and word w
RefOverlapsWord(i, w) ==
    w.end_time > ref_labels[i].stt /\ ref_labels[i].end > w.start_time
RefOverlapLen(i, w) ==
    Min(ref_labels[i].end, w.end_time) - Max(ref_labels[i].stt, w.start_time)
\* i overlaps w and no overlapping interval has a longer overlap
HasMaxOverlap(i, w) ==
    /\ RefOverlapsWord(i, w)
    /\ \A k \in 1..Len(ref_labels) :
           RefOverlapsWord(k, w) => RefOverlapLen(k, w) <= RefOverlapLen(i, w)
\* i is the earliest interval of maximum overlap
IsEarliestMaxOverlap(i, w) ==
    HasMaxOverlap(i, w) /\ \A k \in 1..(i - 1) : ~HasMaxOverlap(k, w)

\* the overlap length as the difference of the two doubles
RefOverlapDiff(i, w) ==
    FSub(Flt(Min(ref_labels[i].end, w.end_time)), Flt(Max(ref_labels[i].stt, w.start_time)))
\* i overlaps w and no overlapping interval has a larger difference
HasMaxOverlapDiff(i, w) ==
    /\ RefOverlapsWord(i, w)
    /\ \A k \in 1..Len(ref_labels) :
           RefOverlapsWord(k, w) => FLeq(RefOverlapDiff(k, w), RefOverlapDiff(i, w))
\* i is the earliest interval of the largest difference
IsEarliestMaxOverlapDiff(i, w) ==
    HasMaxOverlapDiff(i, w) /\ \A k \in 1..(i - 1) : ~HasMaxOverlapDiff(k, w)

\* C9: under the strict policy a word is counted correct exactly when its
\* speaker is mapped, some reference interval overlaps it and the mapped
\* speaker is the speaker of the earliest interval of maximum overlap; every
\* word counts in the total
StrictCountsEarliestMaxOverlap ==
    [][(~params.lenient_overlap_WDER /\ wpos' = wpos + 1) =>
          /\ total_word_count' = total_word_count
          /\ correct_word_count' - correct_word_count \in {0, 1}
          /\ correct_word_count' = correct_word_count + 1 <=>
                 /\ wdict'.speaker_label \in DOMAIN mapping_dict
                 /\ \E i \in 1..Len(ref_labels) :
                        /\ IsEarliestMaxOverlap(i, wdict')
                        /\ mapping_dict[wdict'.speaker_label] = ref_labels[i].spk]_vars

\* under the strict policy a word is counted correct exactly when its
\* speaker is mapped, some reference interval overlaps it and the mapped
\* speaker is the speaker of the earliest interval whose overlap, taken as
\* the difference of the doubles, is largest
StrictCountsEarliestMaxDiff ==
    [][(~params.lenient_overlap_WDER /\ wpos' = wpos + 1) =>
          /\ total_word_count' = total_word_count
          /\ correct_word_count' - correct_word_count \in {0, 1}
          /\ correct_word_count' = correct_word_count + 1 <=>
                 /\ wdict'.speaker_label \in DOMAIN mapping_dict
                 /\ \E i \in 1..Len(ref_labels) :
                        /\ IsEarliestMaxOverlapDiff(i, wdict')
                        /\ mapping_dict[wdict'.speaker_label] = ref_labels[i].spk]_vars

\* a word counted correct under the strict policy although a later interval
\* of another speaker ties for the maximum overlap
StrictWitness ==
    /\ pc = "get_WDER"
    /\ ~params.lenient_overlap_WDER
    /\ wpos = 1
    /\ correct_word_count = 1
    /\ \E a, b \in 1..Len(ref_labels) :
           /\ a < b
           /\ HasMaxOverlap(a, wdict) /\ HasMaxOverlap(b, wdict)
           /\ ref_labels[a].spk # ref_labels[b].spk

\* C10: under the lenient policy a word is counted correct exactly when its
\* speaker is mapped, some reference interval overlaps it and the mapped
\* speaker is the speaker of one of the intervals of maximum overlap
LenientCountsAnyMaxOverlap ==
    [][(params.lenient_overlap_WDER /\ wpos' = wpos + 1) =>
          /\ total_word_count' = total_word_count
          /\ correct_word_count' - correct_word_count \in {0, 1}
          /\ correct_word_count' = correct_word_count + 1 <=>
                 /\ wdict'.speaker_label \in DOMAIN mapping_dict
                 /\ \E i \in 1..Len(ref_labels) :
                        /\ HasMaxOverlap(i, wdict')
                        /\ mapping_dict[wdict'.speaker_label] = ref_labels[i].spk]_vars

\* under the lenient policy a word is counted correct exactly when its
\* speaker is mapped, some reference interval overlaps it and the mapped
\* speaker is the speaker of an interval whose overlap, taken as the
\* difference of the doubles, is largest
LenientCountsAnyMaxDiff ==
    [][(params.lenient_overlap_WDER /\ wpos' = wpos + 1) =>
          /\ total_word_count' = total_word_count
          /\ correct_word_count' - correct_word_count \in {0, 1}
          /\ correct_word_count' = correct_word_count + 1 <=>
                 /\ wdict'.speaker_label \in DOMAIN mapping_dict
                 /\ \E i \in 1..Len(ref_labels) :
                        /\ HasMaxOverlapDiff(i, wdict')
                        /\ mapping_dict[wdict'.speaker_label] = ref_labels[i].spk]_vars

\* a word counted correct under the lenient policy through an interval of
\* maximum overlap that is not the earliest one
LenientWitness ==
    /\ pc = "get_WDER"
    /\ params.lenient_overlap_WDER
    /\ wpos = 1
    /\ correct_word_count = 1
    /\ \E a, b \in 1..Len(ref_labels) :
           /\ a < b
           /\ HasMaxOverlap(a, wdict) /\ HasMaxOverlap(b, wdict)
           /\ mapping_dict[wdict.speaker_label] = ref_labels[b].spk
           /\ mapping_dict[wdict.speaker_label] # ref_labels[a].spk

\* word w is correctly matched to its mapped speaker: its speaker is mapped,
\* and the mapped speaker is the speaker of the reference interval the policy
\* selects, an interval of the largest overlap under the lenient policy, the
\* earliest such interval under the strict one
WordIsMatched(w) ==
    /\ w.speaker_label \in DOMAIN mapping_dict
    /\ \E i \in 1..Len(ref_labels) :
           /\ IF params.lenient_overlap_WDER THEN HasMaxOverlapDiff(i, w)
                                             ELSE IsEarliestMaxOverlapDiff(i, w)
           /\ mapping_dict[w.speaker_label] = ref_labels[i].spk

\* the positions of the matched words among the first n words of the list
MatchedWords(n) == {k \in 1..n : WordIsMatched(riva_words[k])}

\* C11: while get_WDER scores an utterance the count of correct words is the
\* number of matched words among the words processed, each counted once, so
\* 0 <= correct <= words processed <= N; for an utterance of N >= 1 words
\* the reported WDER is 1 - correct / N with correct the number of matched
\* words of the whole list, which lies in [0, 1], is 0 when every word is
\* matched and 1 when no word is
WDERIsFractionOfWrongWords ==
    /\ pc \in {"get_WDER", "wder_done"} =>
          /\ total_word_count = Len(riva_words)
          /\ wpos <= total_word_count
          /\ correct_word_count = Cardinality(MatchedWords(wpos))
          /\ 0 <= correct_word_count /\ correct_word_count <= wpos
    /\ pc = "wder_done" =>
          LET N == Len(riva_words)
              correct == Cardinality(MatchedWords(N))
          IN /\ N >= 1
             /\ wder[2] = N
             /\ wder[1] = N - correct
             /\ 0 <= wder[1] /\ wder[1] <= wder[2]
             /\ MatchedWords(N) = 1..N => wder[1] = 0
             /\ MatchedWords(N) = {} => wder[1] = wder[2]

\* an utterance of several words, some matched and some not, has been scored
\* with a WDER strictly between 0 and 1
WDERPartlyCorrectWitness ==
    /\ pc = "wder_done"
    /\ Len(riva_words) >= 2
    /\ MatchedWords(Len(riva_words)) \notin {{}, 1..Len(riva_words)}
    /\ 0 < wder[1] /\ wder[1] < wder[2]

(***************************************************************************)
(* Operations that run on inputs of their own                              *)
(***************************************************************************)
\* the variables of the word-level pipeline, and their state before it runs
coreVars == <<params, word_ts, speech_labels, frame_VAD, word_ts_list, alignVars, wderVars>>

CoreIdle ==
    /\ params = DefaultParams
    /\ word_ts = <<>>
    /\ speech_labels = <<>>
    /\ frame_VAD = <<>>
    /\ word_ts_list = <<>>
    /\ AlignIdle
    /\ WDERIdle

(***************************************************************************)
(* isOverlapArray and getOverlapRangeArray on arrays of [start, end] rows. *)
(***************************************************************************)
OvlMaxTime == 5
OvlMaxRows == 1

\* the [start, end] rows with 0 <= start <= end <= OvlMaxTime, and the rows
\* [1.0, 2.0] and [1.5, 2.5]
OvlRows ==
    {r \in (0..OvlMaxTime) \X (0..OvlMaxTime) : r[1] <= r[2]}
        \cup {<<100, 200>>, <<150, 250>>}

\* np.tile(word_range, (n, 1))
Tile(word_range, n) == [i \in 1..n |-> word_range]

\* rangeA is the array of reference intervals, rangeB one word range tiled to
\* the same shape, as get_WDER passes them
InitOverlap ==
    /\ pc = "ovl_args"
    /\ SideIdle
    /\ CoreIdle
    /\ ScoreIdle
    /\ AsrIdle
    /\ BpeIdle
    /\ CtcIdle
    /\ \E n \in 1..OvlMaxRows :
       \E a \in [1..n -> OvlRows], word_range \in OvlRows :
           ovl = [rangeA |-> a, rangeB |-> Tile(word_range, n),
                  ovl_bool |-> <<>>, ovl_length |-> <<>>]

\* isOverlapArray(rangeA, rangeB): (endA > startB) & (endB > startA), row by row
isOverlapArray(rangeA, rangeB) ==
    [i \in 1..Len(rangeA) |-> isOverlap(rangeA[i], rangeB[i])]

\* getOverlapRangeArray(rangeA, rangeB): right - left, row by row
getOverlapRangeArray(rangeA, rangeB) ==
    [i \in 1..Len(rangeA) |-> getOverlapRange(rangeA[i], rangeB[i])]

CallIsOverlapArray ==
    /\ pc = "ovl_args"
    /\ ovl' = [ovl EXCEPT !.ovl_bool = isOverlapArray(ovl.rangeA, ovl.rangeB)]
    /\ pc' = "ovl_bool"
    /\ UNCHANGED <<sideVars, score, asr, bpe, ctc, coreVars>>

CallGetOverlapRangeArray ==
    /\ pc = "ovl_bool"
    /\ ovl' = [ovl EXCEPT !.ovl_length = getOverlapRangeArray(ovl.rangeA, ovl.rangeB)]
    /\ pc' = "ovl_done"
    /\ UNCHANGED <<sideVars, score, asr, bpe, ctc, coreVars>>

NextOverlap == CallIsOverlapArray \/ CallGetOverlapRangeArray

SpecOverlap == InitOverlap /\ [][NextOverlap]_vars

\* C14: for every reference row [refStart, refEnd] and word range
\* [wordStart, wordEnd] the overlap test is (wordEnd > refStart) and
\* (refEnd > wordStart); swapping the two arguments gives the same answer;
\* the test is false when the intervals only touch at an endpoint; and for
\* two intervals with start < end it is true exactly when the overlap
\* length min(ends) - max(starts) is positive
OverlapTestIsStrict ==
    pc = "ovl_done" =>
        \A i \in 1..Len(ovl.rangeA) :
            LET ref == ovl.rangeA[i]
                word == ovl.rangeB[i]
            IN /\ ovl.ovl_bool[i] <=> (word[2] > ref[1] /\ ref[2] > word[1])
               /\ ovl.ovl_bool[i] <=> isOverlapArray(ovl.rangeB, ovl.rangeA)[i]
               /\ (ref[2] = word[1] \/ word[2] = ref[1]) => ~ovl.ovl_bool[i]
               /\ Tick(Round2(ovl.ovl_length[i])) = Min(ref[2], word[2]) - Max(ref[1], word[1])
               /\ (ref[1] < ref[2] /\ word[1] < word[2]) =>
                      (ovl.ovl_bool[i] <=> FLess(Flt(0), ovl.ovl_length[i]))

\* the word [1.0, 2.0] against the reference [1.5, 2.5]: the intervals
\* overlap, by 0.5
OverlapExampleWitness ==
    /\ pc = "ovl_done"
    /\ ovl.rangeA[1] = <<150, 250>>
    /\ ovl.rangeB[1] = <<100, 200>>
    /\ ovl.ovl_bool[1]
    /\ ovl.ovl_length[1] = <<50, 0>>

\* two intervals that touch at an endpoint have been compared
OverlapTouchWitness ==
    /\ pc = "ovl_done"
    /\ ovl.rangeA[1] = <<1, 3>>
    /\ ovl.rangeB[1] = <<3, 5>>
    /\ ~ovl.ovl_bool[1]
    /\ ovl.ovl_length[1] = <<0, 0>>

(***************************************************************************)
(* Scoring a list of utterances: eval_diarization, then get_WDER on its    *)
(* result.  get_DER is pyannote's metric; the model keeps a score as the   *)
(* arguments of the call that computes it, and takes the speaker mapping   *)
(* the call returns for one utterance from the input.                      *)
(***************************************************************************)
ScoreMaxWords == 2

\* the audio files: <dir>/<stem>.wav, with distinct stems
UniqIds == {"utt_a", "utt_b"}
AudioPaths == {[dir |-> "audio", stem |-> s, ext |-> "wav"] : s \in UniqIds}

get_uniq_id_from_audio_path(audio_file_path) == audio_file_path.stem

\* the lists of distinct audio files, the empty list among them
AudioFileLists ==
    {l \in UNION {[1..n -> AudioPaths] : n \in 0..Cardinality(UniqIds)} :
        \A a, b \in 1..Len(l) : a # b => l[a] # l[b]}

\* the reference intervals an RTTM file may hold; in the last list two
\* speakers talk at once, so both intervals overlap a word by the same length
ScoreRefChoices ==
    {<<[stt |-> 0, end |-> 1, spk |-> "A"]>>,
     <<[stt |-> 0, end |-> 1, spk |-> "B"], [stt |-> 1, end |-> 2, spk |-> "A"]>>,
     <<[stt |-> 0, end |-> 2, spk |-> "B"], [stt |-> 0, end |-> 2, spk |-> "A"]>>}

\* the speaker mappings the scoring of one utterance may return
ScoreMappingChoices ==
    {[s \in {"speaker_0"} |-> "A"],
     [s \in Speakers |-> IF s = "speaker_0" THEN "A" ELSE "B"]}

\* the word lists of write_json_and_transcript: word k spans [k - 1, k]
ScoreWordLists ==
    UNION {{[k \in 1..n |-> [start_time |-> k - 1, end_time |-> k,
                              speaker_label |-> sp[k]]] : sp \in [1..n -> Speakers]} :
           n \in 0..ScoreMaxWords}

\* the diarization output of an utterance, a different one for each file
ScoreDiarLabels(uniq_id) ==
    IF uniq_id = "utt_a"
    THEN <<[stt |-> 0, end |-> 1, spk |-> "speaker_0"], [stt |-> 1, end |-> 2, spk |-> "speaker_1"]>>
    ELSE <<[stt |-> 0, end |-> 2, spk |-> "speaker_0"]>>

\* d[key] = val
DictSet(d, key, val) == [x \in DOMAIN d \cup {key} |-> IF x = key THEN val ELSE d[x]]

InitScore ==
    /\ pc = "eval_diarization"
    /\ SideIdle
    /\ OvlIdle
    /\ AsrIdle
    /\ BpeIdle
    /\ CtcIdle
    /\ \E l \in BOOLEAN : params = [DefaultParams EXCEPT !.lenient_overlap_WDER = l]
    /\ word_ts = <<>>
    /\ speech_labels = <<>>
    /\ frame_VAD = <<>>
    /\ word_ts_list = <<>>
    /\ AlignIdle
    /\ WDERIdle
    /\ \E files \in AudioFileLists :
       LET ids == {get_uniq_id_from_audio_path(files[i]) : i \in 1..Len(files)}
       IN \E refs \in [ids -> ScoreRefChoices], maps \in [ids -> ScoreMappingChoices],
             words \in [ids -> ScoreWordLists], on_disk \in SUBSET ids :
           score = [audio_file_list |-> files,
                    diar_labels |-> [i \in 1..Len(files) |->
                        ScoreDiarLabels(get_uniq_id_from_audio_path(files[i]))],
                    rttm_labels |-> refs,
                    rttm_on_disk |-> on_disk,
                    der_mapping |-> maps,
                    total_riva_dict |-> [u \in ids |-> [words |-> words[u]]],
                    k |-> 0, ref_labels_list |-> <<>>, all_references |-> <<>>,
                    all_hypotheses |-> <<>>, DER_result_dict |-> EmptyDict,
                    count_correct_spk_counting |-> 0, eval_returned |-> <<>>,
                    wder_dict |-> EmptyDict, grand_total_word_count |-> 0,
                    grand_correct_word_count |-> 0, wder_returned |-> <<>>]

\* an existence test that finds every file
PathAlwaysExists(on_disk, uniq_id) == TRUE

\* os.path.exists(rttm_file) for the RTTM file of an utterance
PathExists(on_disk, uniq_id) == uniq_id \in on_disk

\* labels_to_pyannote_object: the annotation made of the labelled segments
labels_to_pyannote_object(lab) == {<<lab[i].stt, lab[i].end, lab[i].spk>> : i \in 1..Len(lab)}

\* get_num_of_spk_from_labels
get_num_of_spk_from_labels(lab) == Cardinality({lab[i].spk : i \in 1..Len(lab)})

\* the scores of get_DER(all_references, all_hypotheses)
get_DER(all_references, all_hypotheses) ==
    [all_references |-> all_references, all_hypotheses |-> all_hypotheses]

\* eval_diarization, one iteration of the loop over the audio files
EvalUtterance ==
    /\ pc = "eval_diarization"
    /\ score.k < Len(score.audio_file_list)
    /\ LET uniq_id == get_uniq_id_from_audio_path(score.audio_file_list[score.k + 1])
           ref_labels_k == score.rttm_labels[uniq_id]
           reference == labels_to_pyannote_object(ref_labels_k)
           pred_labels == score.diar_labels[score.k + 1]
           est_n_spk == get_num_of_spk_from_labels(pred_labels)
           ref_n_spk == get_num_of_spk_from_labels(ref_labels_k)
           hypothesis == labels_to_pyannote_object(pred_labels)
           der == get_DER(<<reference>>, <<hypothesis>>)
       IN IF PathExists(score.rttm_on_disk, uniq_id)
          THEN /\ score' = [score EXCEPT
                      !.ref_labels_list = Append(@, ref_labels_k),
                      !.all_references = Append(@, reference),
                      !.all_hypotheses = Append(@, hypothesis),
                      !.DER_result_dict = DictSet(@, uniq_id,
                           [DER |-> der, n_spk |-> est_n_spk,
                            mapping |-> score.der_mapping[uniq_id],
                            spk_counting |-> (est_n_spk = ref_n_spk)]),
                      !.count_correct_spk_counting =
                           @ + (IF est_n_spk = ref_n_spk THEN 1 ELSE 0),
                      !.k = @ + 1]
               /\ UNCHANGED pc
          ELSE /\ pc' = "ValueError"
               /\ UNCHANGED score
    /\ UNCHANGED <<sideVars, ovl, asr, bpe, ctc, coreVars>>

\* eval_diarization after the loop: the cumulative scores, and the return;
\* count_correct_spk_counting / len(audio_file_list) raises ZeroDivisionError
\* for an empty list of files
EvalTotal ==
    /\ pc = "eval_diarization"
    /\ score.k = Len(score.audio_file_list)
    /\ IF Len(score.audio_file_list) = 0
       THEN /\ pc' = "ZeroDivisionError"
            /\ UNCHANGED score
       ELSE /\ LET result == DictSet(score.DER_result_dict, "total",
                                [DER |-> get_DER(score.all_references, score.all_hypotheses),
                                 spk_counting_acc |-> <<score.count_correct_spk_counting,
                                                        Len(score.audio_file_list)>>])
               IN score' = [score EXCEPT !.DER_result_dict = result,
                                         !.eval_returned = <<score.ref_labels_list, result>>,
                                         !.k = 0]
            /\ pc' = "get_WDER_files"
    /\ UNCHANGED <<sideVars, ovl, asr, bpe, ctc, coreVars>>

\* the loop over words_list: what one word adds to correct_word_count
WordCorrect(lab, mapping, lenient, w) ==
    IF w.speaker_label \notin DOMAIN mapping THEN 0
    ELSE IF \A i \in 1..Len(lab) : ~OvlBool(lab, w)[i] THEN 0
    ELSE IF lenient THEN LenientCorrect(lab, w, mapping[w.speaker_label])
    ELSE StrictCorrect(lab, w, mapping[w.speaker_label])

\* start_point, end_point, ref_spk_label = labels[idx].split() with idx = 0,
\* read for every word whose speaker is mapped: it raises IndexError when the
\* reference has no interval
LabelsReadFails(words_list, lab, mapping) ==
    /\ lab = <<>>
    /\ \E i \in 1..Len(words_list) : words_list[i].speaker_label \in DOMAIN mapping

RECURSIVE CountCorrectWords(_, _, _, _, _)
CountCorrectWords(words_list, lab, mapping, lenient, correct) ==
    IF words_list = <<>> THEN correct
    ELSE CountCorrectWords(Tail(words_list), lab, mapping, lenient,
                           correct + WordCorrect(lab, mapping, lenient, Head(words_list)))

\* the reference labels of the first utterance, whatever k
RefLabelsOfFirst(ref_labels_list, k) == ref_labels_list[1]

\* labels = ref_labels_list[k]
RefLabelsAt(ref_labels_list, k) == ref_labels_list[k + 1]

\* an accumulator that keeps only the last count
GrandLast(grand, count) == count

\* grand_total_word_count += ..., grand_correct_word_count += ...
GrandAdd(grand, count) == grand + count

\* get_WDER, one iteration of the loop over the audio files, called with the
\* lists eval_diarization returned
GetWDERUtterance ==
    /\ pc = "get_WDER_files"
    /\ score.k < Len(score.audio_file_list)
    /\ LET lab == RefLabelsAt(score.eval_returned[1], score.k)
           uniq_id == get_uniq_id_from_audio_path(score.audio_file_list[score.k + 1])
           mapping == score.eval_returned[2][uniq_id].mapping
           words_list == score.total_riva_dict[uniq_id].words
           correct == CountCorrectWords(words_list, lab, mapping,
                                        params.lenient_overlap_WDER, 0)
           total == Len(words_list)
       IN IF LabelsReadFails(words_list, lab, mapping)
          THEN /\ pc' = "IndexError"
               /\ UNCHANGED score
          ELSE IF total = 0
          THEN /\ pc' = "ZeroDivisionError"
               /\ UNCHANGED score
          ELSE /\ score' = [score EXCEPT
                      !.grand_total_word_count = GrandAdd(@, total),
                      !.grand_correct_word_count = GrandAdd(@, correct),
                      !.wder_dict = DictSet(@, uniq_id, WDERFraction(correct, total)),
                      !.k = @ + 1]
               /\ UNCHANGED pc
    /\ UNCHANGED <<sideVars, ovl, asr, bpe, ctc, coreVars>>

\* get_WDER after the loop: the total, and the return
GetWDERTotal ==
    /\ pc = "get_WDER_files"
    /\ score.k = Len(score.audio_file_list)
    /\ IF score.grand_total_word_count = 0
       THEN /\ pc' = "ZeroDivisionError"
            /\ UNCHANGED score
       ELSE /\ LET result == DictSet(score.wder_dict, "total",
                                WDERFraction(score.grand_correct_word_count,
                                             score.grand_total_word_count))
               IN score' = [score EXCEPT !.wder_dict = result, !.wder_returned = result]
            /\ pc' = "wder_returned"
    /\ UNCHANGED <<sideVars, ovl, asr, bpe, ctc, coreVars>>

NextScore == EvalUtterance \/ EvalTotal \/ GetWDERUtterance \/ GetWDERTotal

SpecScore == InitScore /\ [][NextScore]_vars

\* get_WDER as a function of its arguments: the loop over audio_file_list
\* from file k on, acc holding wder_dict and the two grand counters; the
\* result is wder_dict, or the error that ends the call
RECURSIVE GetWDERLoop(_, _, _, _, _, _, _)
GetWDERLoop(audio_file_list, total_riva_dict, DER_result_dict, ref_labels_list, lenient, k, acc) ==
    IF k = Len(audio_file_list)
    THEN IF acc.grand_total_word_count = 0 THEN "ZeroDivisionError"
         ELSE DictSet(acc.wder_dict, "total",
                      WDERFraction(acc.grand_correct_word_count, acc.grand_total_word_count))
    ELSE LET lab == RefLabelsAt(ref_labels_list, k)
             uniq_id == get_uniq_id_from_audio_path(audio_file_list[k + 1])
             mapping == DER_result_dict[uniq_id].mapping
             words_list == total_riva_dict[uniq_id].words
             correct == CountCorrectWords(words_list, lab, mapping, lenient, 0)
             total == Len(words_list)
         IN IF LabelsReadFails(words_list, lab, mapping) THEN "IndexError"
            ELSE IF total = 0 THEN "ZeroDivisionError"
            ELSE GetWDERLoop(audio_file_list, total_riva_dict, DER_result_dict,
                     ref_labels_list, lenient, k + 1,
                     [wder_dict |-> DictSet(acc.wder_dict, uniq_id,
                                            WDERFraction(correct, total)),
                      grand_total_word_count |-> GrandAdd(acc.grand_total_word_count, total),
                      grand_correct_word_count |->
                          GrandAdd(acc.grand_correct_word_count, correct)])

get_WDER(audio_file_list, total_riva_dict, DER_result_dict, ref_labels_list, lenient) ==
    GetWDERLoop(audio_file_list, total_riva_dict, DER_result_dict, ref_labels_list, lenient,
                0, [wder_dict |-> EmptyDict, grand_total_word_count |-> 0,
                    grand_correct_word_count |-> 0])

\* the ids of the scored utterances, their word counts, and the number of
\* correct words the reported per-utterance WDER stands for
ScoredIds ==
    {get_uniq_id_from_audio_path(score.audio_file_list[i]) :
        i \in 1..Len(score.audio_file_list)}
WordCountOf(u) == Len(score.total_riva_dict[u].words)
CorrectCountOf(u) == WordCountOf(u) - score.wder_dict[u][1]

RECURSIVE SumOver(_, _)
SumOver(f, S) ==
    IF S = {} THEN 0 ELSE LET u == CHOOSE x \in S : TRUE IN f[u] + SumOver(f, S \ {u})

SumOfWordCounts == SumOver([u \in ScoredIds |-> WordCountOf(u)], ScoredIds)
SumOfCorrectCounts == SumOver([u \in ScoredIds |-> CorrectCountOf(u)], ScoredIds)

\* the total WDER is 1 - (sum of correct counts) / (sum of word counts)
TotalWDERIsPooled ==
    score.wder_dict["total"] = <<SumOfWordCounts - SumOfCorrectCounts, SumOfWordCounts>>

\* the total WDER p/q is not the mean (pa/qa + pb/qb) / 2 of the WDERs of
\* utterances a and b
TotalDiffersFromMean(a, b) ==
    LET t == score.wder_dict["total"]
        wa == score.wder_dict[a]
        wb == score.wder_dict[b]
    IN 2 * t[1] * wa[2] * wb[2] # t[2] * (wa[1] * wb[2] + wb[1] * wa[2])

\* the per-utterance WDERs pa/qa and pb/qb differ
WDERsDiffer(a, b) ==
    score.wder_dict[a][1] * score.wder_dict[b][2] #
        score.wder_dict[b][1] * score.wder_dict[a][2]

\* the total DER record holds the score of one call whose arguments are the
\* references and the hypotheses of the utterances, one each, in file order
TotalDERIsOneCallOverAll ==
    LET n == Len(score.audio_file_list)
        result == score.eval_returned[2]
    IN result["total"].DER =
          get_DER([i \in 1..n |-> labels_to_pyannote_object(
                       score.rttm_labels[get_uniq_id_from_audio_path(
                                             score.audio_file_list[i])])],
                  [i \in 1..n |-> labels_to_pyannote_object(score.diar_labels[i])])

\* C12 as stated: the total WDER is pooled and differs from the mean of the
\* per-utterance WDERs whenever two utterances have different lengths, and
\* the total DER is one scoring call over all references and hypotheses
TotalIsPooledAndNeverTheMean ==
    /\ pc \in {"get_WDER_files", "wder_returned"} => TotalDERIsOneCallOverAll
    /\ pc = "wder_returned" =>
          /\ TotalWDERIsPooled
          /\ \A a, b \in ScoredIds :
                 WordCountOf(a) # WordCountOf(b) => TotalDiffersFromMean(a, b)

\* C12: once eval_diarization has returned, the total DER record is the
\* score of one call over the lists holding one reference and one hypothesis
\* per utterance in file-list order; once get_WDER has returned, the total
\* WDER is 1 - (sum of correct counts) / (sum of word counts), which for two
\* utterances differs from the mean of their WDERs exactly when they differ
\* both in length and in WDER
TotalIsPooled ==
    /\ pc \in {"get_WDER_files", "wder_returned"} => TotalDERIsOneCallOverAll
    /\ pc = "wder_returned" =>
          /\ TotalWDERIsPooled
          /\ \A a, b \in ScoredIds :
                 a # b =>
                     (TotalDiffersFromMean(a, b) <=>
                          (WordCountOf(a) # WordCountOf(b) /\ WDERsDiffer(a, b)))

\* two utterances of different lengths have been scored, the total is not
\* the mean of their WDERs, and the total DER was scored over two different
\* references and two different hypotheses, those of the second file of the
\* list in second place
TotalIsPooledWitness ==
    /\ pc = "wder_returned"
    /\ \E a, b \in ScoredIds :
           /\ WordCountOf(a) # WordCountOf(b)
           /\ TotalDiffersFromMean(a, b)
    /\ LET total == score.eval_returned[2]["total"].DER
       IN /\ Len(total.all_references) = 2
          /\ Len(total.all_hypotheses) = 2
          /\ total.all_references[1] # total.all_references[2]
          /\ total.all_hypotheses[1] # total.all_hypotheses[2]
          /\ total.all_hypotheses[2] = labels_to_pyannote_object(
                 ScoreDiarLabels(get_uniq_id_from_audio_path(score.audio_file_list[2])))

\* the permutations of 1..n
ListPermutations(n) == {p \in [1..n -> 1..n] : \A a, b \in 1..n : a # b => p[a] # p[b]}

\* C13: for every permutation of the list of audio files, with the list of
\* reference labels permuted the same way, get_WDER returns what it returned
\* for the list in its given order: the same WDER under every utterance id
\* and the same total; and the result has one entry per utterance id
WDERIsOrderIndependent ==
    pc = "wder_returned" =>
        LET n == Len(score.audio_file_list)
        IN /\ DOMAIN score.wder_returned = ScoredIds \cup {"total"}
           /\ \A p \in ListPermutations(n) :
                  get_WDER([i \in 1..n |-> score.audio_file_list[p[i]]],
                           score.total_riva_dict, score.eval_returned[2],
                           [i \in 1..n |-> score.eval_returned[1][p[i]]],
                           params.lenient_overlap_WDER) = score.wder_returned

\* two utterances with different reference labels and different WDERs have
\* been scored
WDEROrderWitness ==
    /\ pc = "wder_returned"
    /\ Len(score.audio_file_list) = 2
    /\ score.eval_returned[1][1] # score.eval_returned[1][2]
    /\ \E a, b \in ScoredIds : WDERsDiffer(a, b)

\* C15: get_WDER does not fail with a division by zero, whatever the number
\* of words of an utterance (eval_diarization has returned, so the failure
\* would be one of get_WDER)
ZeroWordUtteranceIsGuarded == score.eval_returned # <<>> => pc # "ZeroDivisionError"

\* the RTTM file of the utterance the loop of eval_diarization is at is missing
AtMissingRTTM ==
    /\ pc = "eval_diarization"
    /\ score.k < Len(score.audio_file_list)
    /\ get_uniq_id_from_audio_path(score.audio_file_list[score.k + 1])
           \notin score.rttm_on_disk

\* C16: when the reference RTTM file of some utterance of the list does not
\* exist, eval_diarization returns nothing, neither the list of reference
\* labels nor a DER result, and get_WDER is never reached; on reaching the
\* utterance whose file is missing it fails with ValueError
MissingRTTMIsFatal ==
    /\ [](ScoredIds \ score.rttm_on_disk # {} =>
             /\ score.eval_returned = <<>>
             /\ pc \in {"eval_diarization", "ValueError"})
    /\ [][AtMissingRTTM => pc' = "ValueError" /\ score'.eval_returned = <<>>]_vars

\* eval_diarization has failed at the second utterance, after it had made
\* the record of the first
MissingRTTMWitness ==
    /\ pc = "ValueError"
    /\ score.k = 1
    /\ DOMAIN score.DER_result_dict # {}
    /\ score.eval_returned = <<>>

(***************************************************************************)
(* set_asr_model.  A model name is kept as the set of the family           *)
(* substrings it contains; `x in ASR_model_name` is membership in that     *)
(* set.  asr.self holds the attributes of the object that are set, params  *)
(* is self.params, with an entry per key that is set.                      *)
(***************************************************************************)
\* the substrings set_asr_model looks for
FamilySubstrings ==
    {"QuartzNet", "conformer_ctc", "citrinet", "conformer_transducer", "contextnet"}

\* ASR_DIAR_OFFLINE.__init__: the attributes of a new object
NewObject(p) ==
    [a \in {"nonspeech_threshold", "root_path", "run_ASR", "frame_VAD"} |->
        CASE a = "nonspeech_threshold" -> p["threshold"]
          [] a = "frame_VAD" -> EmptyDict
          [] OTHER -> "None"]

InitSetModel ==
    /\ pc = "set_asr_model"
    /\ SideIdle
    /\ OvlIdle
    /\ ScoreIdle
    /\ BpeIdle
    /\ CtcIdle
    /\ \E has_name \in BOOLEAN :
           params = IF has_name THEN DictSet(DefaultParams, "ASR_model_name", "name")
                    ELSE DefaultParams
    /\ word_ts = <<>>
    /\ speech_labels = <<>>
    /\ frame_VAD = <<>>
    /\ word_ts_list = <<>>
    /\ AlignIdle
    /\ WDERIdle
    /\ \E name \in SUBSET FamilySubstrings :
           asr = [ASR_model_name |-> name, self |-> NewObject(DefaultParams),
                  returned |-> "nothing", directories |-> EmptyDict]

\* the branches of set_asr_model with citrinet tested before conformer_ctc
FamilyOfCitrinetFirst(ASR_model_name) ==
    IF "QuartzNet" \in ASR_model_name THEN "QuartzNet"
    ELSE IF "citrinet" \in ASR_model_name THEN "citrinet"
    ELSE IF "conformer_ctc" \in ASR_model_name THEN "conformer_ctc"
    ELSE IF "conformer_transducer" \in ASR_model_name \/ "contextnet" \in ASR_model_name
         THEN "transducer"
    ELSE "not found"

\* the branch of the if / elif chain that a model name takes
FamilyOf(ASR_model_name) ==
    IF "QuartzNet" \in ASR_model_name THEN "QuartzNet"
    ELSE IF "conformer_ctc" \in ASR_model_name THEN "conformer_ctc"
    ELSE IF "citrinet" \in ASR_model_name THEN "citrinet"
    ELSE IF "conformer_transducer" \in ASR_model_name \/ "contextnet" \in ASR_model_name
         THEN "transducer"
    ELSE "not found"

\* self.x = v for every key x of the dict attrs
SetAll(d, attrs) ==
    [x \in DOMAIN d \cup DOMAIN attrs |-> IF x \in DOMAIN attrs THEN attrs[x] ELSE d[x]]

\* what a branch assigns before it loads the model
BeforeLoad(family) ==
    CASE family = "QuartzNet" -> [a \in {"run_ASR"} |-> "run_ASR_QuartzNet_CTC"]
      [] family \in {"conformer_ctc", "citrinet"} -> [a \in {"run_ASR"} |-> "run_ASR_BPE_CTC"]
      [] family = "transducer" ->
             [a \in {"run_ASR", "get_speech_labels_list"} |->
                 IF a = "run_ASR" THEN "run_ASR_BPE_RNNT" ELSE "save_SAD_labels_list"]

\* model_stride_in_secs of a branch, in ticks of 10 ms
StrideOf(family) ==
    CASE family = "QuartzNet" -> 2
      [] family = "conformer_ctc" -> 4
      [] family = "citrinet" -> 8
      [] family = "transducer" -> 4

\* params['offset'] and asr_delay_sec of a branch, in ticks of 10 ms
OffsetOf(family) == IF family = "QuartzNet" THEN 0 - 18 ELSE 0
DelayOf(family) == IF family = "QuartzNet" THEN (0 - 1) * OffsetOf(family) ELSE 0

\* what a branch assigns to self after it has loaded the model, followed by
\* self.asr_batch_size = 16
AfterLoad(family) ==
    IF family = "QuartzNet"
    THEN [a \in {"model_stride_in_secs", "asr_delay_sec", "asr_batch_size"} |->
             CASE a = "model_stride_in_secs" -> StrideOf(family)
               [] a = "asr_delay_sec" -> DelayOf(family)
               [] a = "asr_batch_size" -> 16]
    ELSE [a \in {"model_stride_in_secs", "asr_delay_sec", "chunk_len_in_sec",
                 "total_buffer_in_secs", "asr_batch_size"} |->
             CASE a = "model_stride_in_secs" -> StrideOf(family)
               [] a = "asr_delay_sec" -> DelayOf(family)
               [] a = "chunk_len_in_sec" -> 160
               [] a = "total_buffer_in_secs" -> 400
               [] a = "asr_batch_size" -> 16]

\* set_asr_model(ASR_model_name); from_pretrained either loads the model or
\* raises
SetAsrModel ==
    /\ pc = "set_asr_model"
    /\ LET family == FamilyOf(asr.ASR_model_name)
       IN IF family = "not found"
          THEN /\ pc' = IF "ASR_model_name" \in DOMAIN params THEN "ValueError"
                        ELSE "KeyError"
               /\ UNCHANGED <<sideVars, asr, params>>
          ELSE \E loaded \in BOOLEAN :
                  IF loaded
                  THEN /\ asr' = [asr EXCEPT
                              !.self = SetAll(SetAll(@, BeforeLoad(family)),
                                              AfterLoad(family)),
                              !.returned = "asr_model"]
                       /\ params' = DictSet(DictSet(params, "offset", OffsetOf(family)),
                                            "time_stride", StrideOf(family))
                       /\ pc' = "asr_model_set"
                  ELSE /\ asr' = [asr EXCEPT !.self = SetAll(@, BeforeLoad(family))]
                       /\ pc' = "from_pretrained_error"
                       /\ UNCHANGED params
    /\ UNCHANGED <<sideVars, ovl, score, bpe, ctc, word_ts, speech_labels, frame_VAD,
                   word_ts_list,
                   alignVars, wderVars>>

\* os.path.join(os.getcwd(), 'asr_with_diar')
DefaultRoot == "cwd/asr_with_diar"

\* ROOT of create_directories: output_path when it is given
RootOf(output_path) == IF output_path # "" THEN output_path ELSE DefaultRoot

\* os.path.join(ROOT, name)
PathJoin(root, name) == [dir |-> root, name |-> name]

\* the directory attributes create_directories assigns, and self.root_path
DirectoryAttributes(root) ==
    [a \in {"oracle_vad_dir", "json_result_dir", "trans_with_spks_dir",
            "audacity_label_dir", "root_path"} |->
        CASE a = "oracle_vad_dir" -> PathJoin(root, "oracle_vad")
          [] a = "json_result_dir" -> PathJoin(root, "json_result")
          [] a = "trans_with_spks_dir" -> PathJoin(root, "transcript_with_speaker_labels")
          [] a = "audacity_label_dir" -> PathJoin(root, "audacity_label")
          [] a = "root_path" -> root]

\* the directories os.makedirs leaves under ROOT
MadeDirectories ==
    {"oracle_vad", "json_result", "transcript_with_speaker_labels", "audacity_label", "data"}

\* create_directories(output_path): the attributes are assigned and the
\* directories made, exist_ok, whenever it is called on the object
CreateDirectories ==
    /\ pc \in {"set_asr_model", "asr_model_set"}
    /\ \E output_path \in {"", "output"} :
           asr' = [asr EXCEPT
                      !.self = SetAll(@, DirectoryAttributes(RootOf(output_path))),
                      !.directories = DictSet(@, RootOf(output_path), MadeDirectories)]
    /\ UNCHANGED <<pc, params, sideVars, ovl, score, bpe, ctc, word_ts, speech_labels,
                   frame_VAD, word_ts_list, alignVars, wderVars>>

NextSetModel == SetAsrModel \/ CreateDirectories

SpecSetModel == InitSetModel /\ [][NextSetModel]_vars

\* the families in the order the claim gives them, the decoder and the
\* stride (ticks of 10 ms) of each
FamilyOrder ==
    <<"QuartzNet", "conformer_ctc", "citrinet", "conformer_transducer", "contextnet">>
FamilyDecoder ==
    <<"run_ASR_QuartzNet_CTC", "run_ASR_BPE_CTC", "run_ASR_BPE_CTC", "run_ASR_BPE_RNNT",
      "run_ASR_BPE_RNNT">>
FamilyStride == <<2, 4, 8, 4, 4>>
FirstMatch(name) ==
    CHOOSE i \in 1..Len(FamilyOrder) :
        /\ FamilyOrder[i] \in name
        /\ \A m \in 1..(i - 1) : FamilyOrder[m] \notin name

\* C17: after set_asr_model was called with a name that contains none of the
\* family substrings the call has failed with an error, run_ASR is still
\* None and neither params['time_stride'] nor asr_batch_size nor
\* asr_delay_sec is set; a call that completes has selected the decoder of
\* the first family, in the order QuartzNet, conformer_ctc, citrinet,
\* conformer_transducer, contextnet, whose substring the name contains, and
\* params['time_stride'] is the stride of that family
UnknownModelNameIsFatal ==
    /\ (pc # "set_asr_model" /\ asr.ASR_model_name \cap FamilySubstrings = {}) =>
          /\ pc \in {"ValueError", "KeyError"}
          /\ asr.returned = "nothing"
          /\ asr.self["run_ASR"] = "None"
          /\ "time_stride" \notin DOMAIN params
          /\ "asr_batch_size" \notin DOMAIN asr.self
          /\ "asr_delay_sec" \notin DOMAIN asr.self
    /\ pc \in {"ValueError", "KeyError"} => asr.ASR_model_name \cap FamilySubstrings = {}
    /\ pc = "asr_model_set" =>
          LET i == FirstMatch(asr.ASR_model_name)
          IN /\ asr.self["run_ASR"] = FamilyDecoder[i]
             /\ params["time_stride"] = FamilyStride[i]
             /\ asr.self["model_stride_in_secs"] = FamilyStride[i]

\* a name without any family substring has been rejected
UnknownModelNameWitness ==
    /\ pc = "ValueError"
    /\ asr.ASR_model_name = {}
    /\ asr.self["run_ASR"] = "None"

\* a name that contains the substrings of two families has configured the
\* first of them
FirstFamilyWitness ==
    /\ pc = "asr_model_set"
    /\ asr.ASR_model_name = {"conformer_ctc", "citrinet"}
    /\ params["time_stride"] = 4

(***************************************************************************)
(* WERBPE_TS.get_ts_from_decoded_prediction: word timestamps of a          *)
(* sub-word (BPE) transcript.  A token is the sequence of its characters;  *)
(* the first character of a word-initial piece and the only character of   *)
(* a stand-alone separator is the marker U+2581, written "_" here.         *)
(***************************************************************************)
BpeMaxTokens == 3
BpeMaxFrame == 9

\* the pieces of the tokenizer: a stand-alone separator, a word-initial
\* piece and a piece that continues a word
BpeTokens == {<<"_">>, <<"_", "a">>, <<"b">>}

\* the model strides, in ticks of 10 ms
BpeStrides == {2, 4, 8}

\* the lists of n frame indices within lo..BpeMaxFrame, strictly increasing
RECURSIVE FrameLists(_, _)
FrameLists(n, lo) ==
    IF n = 0 THEN {<<>>}
    ELSE UNION {{<<f>> \o r : r \in FrameLists(n - 1, f + 1)} : f \in lo..BpeMaxFrame}

\* tokenizer.ids_to_text: the pieces joined, each marker replaced by a blank
ids_to_text(decoded_char_list) ==
    IF decoded_char_list = <<>> THEN <<>>
    ELSE LET RECURSIVE Join(_)
             Join(k) == IF k > Len(decoded_char_list) THEN <<>>
                        ELSE decoded_char_list[k] \o Join(k + 1)
             text == Join(1)
         IN [p \in 1..Len(text) |-> IF text[p] = "_" THEN " " ELSE text[p]]

\* str.split(): the words of a text, the maximal runs without a blank
RECURSIVE SplitFrom(_, _, _)
SplitFrom(text, p, word) ==
    IF p > Len(text) THEN (IF word = <<>> THEN <<>> ELSE <<word>>)
    ELSE IF text[p] = " "
         THEN (IF word = <<>> THEN <<>> ELSE <<word>>) \o SplitFrom(text, p + 1, <<>>)
         ELSE SplitFrom(text, p + 1, Append(word, text[p]))
Split(text) == SplitFrom(text, 1, <<>>)

\* the decoded tokens, the frame at which each was emitted turned into
\* char_ts = round(pdx * time_stride, 2), and the decoded text
InitBPE ==
    /\ pc = "get_ts_from_decoded_prediction"
    /\ SideIdle
    /\ CoreIdle
    /\ OvlIdle
    /\ ScoreIdle
    /\ AsrIdle
    /\ CtcIdle
    /\ \E n \in 0..BpeMaxTokens :
       \E toks \in [1..n -> BpeTokens], frames \in FrameLists(n, 0), stride \in BpeStrides :
           bpe = [prediction |-> <<>>,
                  time_stride |-> stride, asr_delay_sec |-> 0, decoded_char_list |-> toks,
                  char_ts |-> [k \in 1..n |-> frames[k] * stride],
                  hypothesis |-> ids_to_text(toks), word_ts |-> <<>>]

\* space in ch
HasSpace(ch) == \E p \in 1..Len(ch) : ch[p] = "_"

\* a word that ends with the emission of its last token
WordEndAtEmission(ts, time_stride) == ts

\* _end = round(char_ts[idx] + self.time_stride, 2)
WordEnd(ts, time_stride) == ts + time_stride

\* the loop of get_ts_from_decoded_prediction from Python index idx (here ix) on
RECURSIVE TsLoop(_, _, _, _, _, _, _)
TsLoop(decoded_char_list, char_ts, time_stride, ix, stt, word_open_flag, acc) ==
    IF ix = Len(decoded_char_list) THEN acc
    ELSE LET space == <<"_">>
             stt_idx == 0
             end_idx == Len(decoded_char_list) - 1
             ch == decoded_char_list[ix + 1]
             skip == ix # end_idx /\ (space = ch /\ HasSpace(decoded_char_list[ix + 2]))
             opens == /\ \/ ix = stt_idx
                         \/ space = decoded_char_list[ix]
                         \/ (HasSpace(ch) /\ Len(ch) > 1)
                      /\ ch # space
             stt1 == IF opens THEN char_ts[ix + 1] ELSE stt
             open1 == word_open_flag \/ opens
             closes == /\ open1
                       /\ ch # space
                       /\ (ix = end_idx \/ HasSpace(decoded_char_list[ix + 2]))
         IN IF skip
            THEN TsLoop(decoded_char_list, char_ts, time_stride, ix + 1, stt,
                        word_open_flag, acc)
            ELSE TsLoop(decoded_char_list, char_ts, time_stride, ix + 1, stt1,
                        open1 /\ ~closes,
                        IF closes
                        THEN Append(acc, <<stt1, WordEnd(char_ts[ix + 1], time_stride)>>)
                        ELSE acc)

\* get_ts_from_decoded_prediction; when the number of timestamps is not the
\* number of words of the hypothesis the assertion fails and the debugger
\* is entered
GetTsFromDecodedPrediction ==
    /\ pc = "get_ts_from_decoded_prediction"
    /\ LET word_ts_out == TsLoop(bpe.decoded_char_list, bpe.char_ts, bpe.time_stride, 0, 0,
                                 FALSE, <<>>)
       IN /\ bpe' = [bpe EXCEPT !.word_ts = word_ts_out]
          /\ pc' = IF Len(Split(bpe.hypothesis)) = Len(word_ts_out) THEN "word_ts_returned"
                   ELSE "ipdb.set_trace"
    /\ UNCHANGED <<sideVars, ovl, score, asr, ctc, coreVars>>

\* the decoder delays set_asr_model sets, in ticks of 10 ms
AsrDelays == {DelayOf(f) : f \in {"QuartzNet", "conformer_ctc", "citrinet", "transducer"}}

\* apply_delay on a list of doubles: the delay is taken from every
\* timestamp and the difference rounded to two decimals, a start is not
\* allowed below zero
apply_delay(word_ts_in, asr_delay_sec) ==
    [p \in 1..Len(word_ts_in) |->
        <<Max(Tick(Round2(FSub(word_ts_in[p][1], Flt(asr_delay_sec)))), 0),
          Tick(Round2(FSub(word_ts_in[p][2], Flt(asr_delay_sec))))>>]

\* apply_delay on the word timestamps of the decoder, for the delay of the
\* model family in use
ApplyDelay ==
    /\ pc = "word_ts_returned"
    /\ \E d \in AsrDelays :
           bpe' = [bpe EXCEPT !.asr_delay_sec = d, !.word_ts = apply_delay(FloatTs(@), d)]
    /\ pc' = "delay_applied"
    /\ UNCHANGED <<sideVars, ovl, score, asr, ctc, coreVars>>

NextBPE == GetTsFromDecodedPrediction \/ ApplyDelay

SpecBPE == InitBPE /\ [][NextBPE]_vars

\* the characters of the decoded tokens in order, each with the index of
\* its token
RECURSIVE TokenChars(_, _)
TokenChars(toks, k) ==
    IF k > Len(toks) THEN <<>>
    ELSE [p \in 1..Len(toks[k]) |-> [char |-> toks[k][p], token |-> k]]
             \o TokenChars(toks, k + 1)

\* the tokens that hold the first and the last character of each word of
\* the transcript, a word being a maximal run of characters other than the
\* separator
WordFirstTokens ==
    LET cs == TokenChars(bpe.decoded_char_list, 1)
    IN {cs[p].token : p \in {q \in 1..Len(cs) :
            cs[q].char # "_" /\ (q = 1 \/ cs[q - 1].char = "_")}}
WordLastTokens ==
    LET cs == TokenChars(bpe.decoded_char_list, 1)
    IN {cs[p].token : p \in {q \in 1..Len(cs) :
            cs[q].char # "_" /\ (q = Len(cs) \/ cs[q + 1].char = "_")}}

\* the k-th smallest element of a set of numbers
RECURSIVE KthOf(_, _)
KthOf(S, k) ==
    LET m == CHOOSE x \in S : \A y \in S : x <= y
    IN IF k = 1 THEN m ELSE KthOf(S \ {m}, k - 1)

\* C18: the k-th timestamp pair returned starts at the timestamp of the
\* token with the first character of the k-th word and ends one stride
\* after the timestamp of the token with its last character; the timestamp
\* of a stand-alone separator token is no word's start, and no word ends
\* one stride after it
WordSpansItsTokens ==
    pc \in {"word_ts_returned", "ipdb.set_trace"} =>
        /\ Len(bpe.word_ts) = Cardinality(WordFirstTokens)
        /\ Cardinality(WordLastTokens) = Cardinality(WordFirstTokens)
        /\ \A k \in 1..Len(bpe.word_ts) :
               /\ bpe.word_ts[k][1] = bpe.char_ts[KthOf(WordFirstTokens, k)]
               /\ bpe.word_ts[k][2] =
                      bpe.char_ts[KthOf(WordLastTokens, k)] + bpe.time_stride
        /\ \A t \in 1..Len(bpe.decoded_char_list) :
               bpe.decoded_char_list[t] = <<"_">> =>
                   \A k \in 1..Len(bpe.word_ts) :
                       /\ bpe.word_ts[k][1] # bpe.char_ts[t]
                       /\ bpe.word_ts[k][2] # bpe.char_ts[t] + bpe.time_stride

\* stride 0.02 s, a word whose first token was emitted at frame 5 and whose
\* last token at frame 9, with a stand-alone separator between them in the
\* list: the word spans 0.10 s to 0.20 s
WordSpanExampleWitness ==
    /\ pc = "word_ts_returned"
    /\ bpe.time_stride = 2
    /\ bpe.char_ts = <<6, 10, 18>>
    /\ bpe.decoded_char_list = <<<<"_">>, <<"_", "a">>, <<"b">>>>
    /\ bpe.word_ts = <<<<10, 20>>>>

(***************************************************************************)
(* The character decoder: run_ASR_QuartzNet_CTC for one utterance, from    *)
(* the greedy frame-level predictions to the word timestamps.  A text is   *)
(* the sequence of its characters.  char_ts counts frames; times are in    *)
(* ticks of 10 ms.                                                         *)
(***************************************************************************)
CtcMaxFrames == 6

\* the labels of the vocabulary, and the blank
CtcLabels == {"a", "b", " "}
CtcBlank == "blank"

\* the greedy predictions of an utterance, one label or the blank per frame;
\* stride and delay are those set_asr_model sets for QuartzNet
InitChar ==
    /\ pc = "ctc_decoder_predictions_tensor_with_ts"
    /\ SideIdle
    /\ CoreIdle
    /\ OvlIdle
    /\ ScoreIdle
    /\ AsrIdle
    /\ BpeIdle
    /\ \E n \in 1..CtcMaxFrames :
       \E prediction \in [1..n -> CtcLabels \cup {CtcBlank}] :
           ctc = [prediction |-> prediction,
                  time_stride |-> StrideOf("QuartzNet"),
                  asr_delay_sec |-> DelayOf("QuartzNet"),
                  text |-> <<>>, char_ts |-> <<>>, trans |-> <<>>,
                  spaces_in_sec |-> <<>>, trans_words |-> <<>>, word_ts |-> <<>>]

\* every frame that is not a blank, a repeat as well
EmitsNonBlank(p, previous, blank_id) == p # blank_id

\* (p != previous or previous == self.blank_id) and p != self.blank_id
Emits(p, previous, blank_id) == (p # previous \/ previous = blank_id) /\ p # blank_id

\* the CTC decoding loop from frame pdx on: a frame is kept when its label
\* is not the blank and differs from the previous frame's label
RECURSIVE CtcLoop(_, _, _, _)
CtcLoop(prediction, pdx, previous, acc) ==
    IF pdx = Len(prediction) THEN acc
    ELSE LET p == prediction[pdx + 1]
         IN CtcLoop(prediction, pdx + 1, p,
                    IF Emits(p, previous, CtcBlank)
                    THEN [decoded_prediction |-> Append(acc.decoded_prediction, p),
                          decoded_timing_list |-> Append(acc.decoded_timing_list, pdx)]
                    ELSE acc)

\* WER_TS.ctc_decoder_predictions_tensor_with_ts for one utterance
CtcDecode ==
    /\ pc = "ctc_decoder_predictions_tensor_with_ts"
    /\ LET d == CtcLoop(ctc.prediction, 0, CtcBlank,
                        [decoded_prediction |-> <<>>, decoded_timing_list |-> <<>>])
       IN ctc' = [ctc EXCEPT !.text = d.decoded_prediction, !.char_ts = d.decoded_timing_list]
    /\ pc' = "clean_trans_and_TS"
    /\ UNCHANGED <<sideVars, ovl, score, asr, bpe, coreVars>>

\* the number of blanks at the start of a text, and str.lstrip / str.rstrip
RECURSIVE LeadingSpaces(_)
LeadingSpaces(s) ==
    IF s = <<>> \/ Head(s) # " " THEN 0 ELSE 1 + LeadingSpaces(Tail(s))
Reverse(s) == [p \in 1..Len(s) |-> s[Len(s) + 1 - p]]
LStrip(s) == SubSeq(s, LeadingSpaces(s) + 1, Len(s))
RStrip(s) == Reverse(LStrip(Reverse(s)))

\* the timestamps cut at the end of the list instead of its start
DropAtEnd(char_ts, diff_L) == SubSeq(char_ts, 1, Len(char_ts) - diff_L)

\* char_ts[diff_L:]
DropAtStart(char_ts, diff_L) == SubSeq(char_ts, diff_L + 1, Len(char_ts))

\* clean_trans_and_TS
CleanTransAndTS ==
    /\ pc = "clean_trans_and_TS"
    /\ IF Len(ctc.text) = 0 \/ Len(ctc.char_ts) = 0 \/ Len(ctc.text) # Len(ctc.char_ts)
       THEN pc' = "AssertionError" /\ UNCHANGED ctc
       ELSE LET trans1 == LStrip(ctc.text)
                diff_L == Len(ctc.char_ts) - Len(trans1)
                char_ts1 == DropAtStart(ctc.char_ts, diff_L)
                trans2 == RStrip(trans1)
                diff_R == Len(char_ts1) - Len(trans2)
                char_ts2 == IF diff_R > 0 THEN SubSeq(char_ts1, 1, Len(char_ts1) - diff_R)
                            ELSE char_ts1
            IN /\ ctc' = [ctc EXCEPT !.trans = trans2, !.char_ts = char_ts2]
               /\ pc' = "_get_spaces"
    /\ UNCHANGED <<sideVars, ovl, score, asr, bpe, coreVars>>

\* the loop of _get_spaces from Python index k on; char_ts[k+1] raises
\* IndexError for a blank that is the last character
RECURSIVE SpacesLoop(_, _, _, _, _, _)
SpacesLoop(trans, char_ts, time_stride, k, stt_idx, acc) ==
    IF k = Len(trans)
    THEN IF Len(trans) > stt_idx /\ trans[stt_idx + 1] # " "
         THEN [acc EXCEPT !.word_list = Append(@, SubSeq(trans, stt_idx + 1, Len(trans)))]
         ELSE acc
    ELSE IF trans[k + 1] = " "
         THEN IF k + 1 >= Len(char_ts) THEN [acc EXCEPT !.IndexError = TRUE]
              ELSE SpacesLoop(trans, char_ts, time_stride, k + 1, k + 1,
                       [acc EXCEPT
                           !.spaces_in_sec = Append(@, <<char_ts[k + 1] * time_stride,
                                                         (char_ts[k + 2] - 1) * time_stride>>),
                           !.word_list = Append(@, SubSeq(trans, stt_idx + 1, k))])
         ELSE SpacesLoop(trans, char_ts, time_stride, k + 1, stt_idx, acc)

\* _get_spaces
GetSpaces ==
    /\ pc = "_get_spaces"
    /\ IF Len(ctc.trans) = 0 \/ Len(ctc.char_ts) = 0 \/ Len(ctc.trans) # Len(ctc.char_ts)
       THEN pc' = "AssertionError" /\ UNCHANGED ctc
       ELSE LET r == SpacesLoop(ctc.trans, ctc.char_ts, ctc.time_stride, 0, 0,
                                [spaces_in_sec |-> <<>>, word_list |-> <<>>,
                                 IndexError |-> FALSE])
            IN IF r.IndexError
               THEN pc' = "IndexError" /\ UNCHANGED ctc
               ELSE /\ ctc' = [ctc EXCEPT !.spaces_in_sec = r.spaces_in_sec,
                                          !.trans_words = r.word_list]
                    /\ pc' = "get_word_ts_from_spaces"
    /\ UNCHANGED <<sideVars, ovl, score, asr, bpe, coreVars>>

\* start_stamp_in_sec = char_ts[0] * time_stride - asr_delay_sec, a double
\* that is not rounded
StartStamp(char_ts, time_stride, asr_delay_sec) ==
    FSub(FMulInt(char_ts[1], Flt(time_stride)), Flt(asr_delay_sec))

\* get_word_ts_from_spaces, for a list of spaces that is not empty: the
\* delay is subtracted from the rounded space boundaries and from the two
\* stamps, and no difference is rounded
WordTsFromSpaces(char_ts, spaces_in_sec, end_stamp, time_stride, asr_delay_sec) ==
    LET n == Len(spaces_in_sec)
        delay == Flt(asr_delay_sec)
        start_stamp_in_sec == StartStamp(char_ts, time_stride, asr_delay_sec)
        end_stamp_in_sec == FSub(FMulInt(end_stamp, Flt(time_stride)), delay)
        word_timetamps_middle ==
            [k \in 1..(n - 1) |-> <<FSub(Flt(spaces_in_sec[k][2]), delay),
                                    FSub(Flt(spaces_in_sec[k + 1][1]), delay)>>]
    IN <<<<start_stamp_in_sec, FSub(Flt(spaces_in_sec[1][1]), delay)>>>>
           \o word_timetamps_middle
           \o <<<<FSub(Flt(spaces_in_sec[n][2]), delay), end_stamp_in_sec>>>>

\* get_word_ts_from_spaces with end_stamp = logit_np.shape[0], and the
\* assertion of run_ASR_QuartzNet_CTC that follows it
GetWordTsFromSpaces ==
    /\ pc = "get_word_ts_from_spaces"
    /\ IF ctc.spaces_in_sec = <<>>
       THEN pc' = "IndexError" /\ UNCHANGED ctc
       ELSE LET word_ts_out == WordTsFromSpaces(ctc.char_ts, ctc.spaces_in_sec,
                                   Len(ctc.prediction), ctc.time_stride, ctc.asr_delay_sec)
            IN /\ ctc' = [ctc EXCEPT !.word_ts = word_ts_out]
               /\ pc' = IF Len(ctc.trans_words) = Len(word_ts_out) THEN "words_returned"
                        ELSE "AssertionError"
    /\ UNCHANGED <<sideVars, ovl, score, asr, bpe, coreVars>>

\* apply_delay on the word timestamps run_ASR_QuartzNet_CTC returned, with
\* the delay of the object that returned them
ApplyDelayToWords ==
    /\ pc = "words_returned"
    /\ ctc' = [ctc EXCEPT !.word_ts = apply_delay(@, ctc.asr_delay_sec)]
    /\ pc' = "apply_delay_returned"
    /\ UNCHANGED <<sideVars, ovl, score, asr, bpe, coreVars>>

NextChar ==
    CtcDecode \/ CleanTransAndTS \/ GetSpaces \/ GetWordTsFromSpaces \/ ApplyDelayToWords

SpecChar == InitChar /\ [][NextChar]_vars

\* the words of the decoded text of the utterance
DecodedWords == Split(ctc.text)

\* C19: once the text of an utterance with at least one word is decoded, the
\* character decoder does not fail, and when it has returned it has as many
\* [start, end] pairs as the text has words
CharDecoderReturnsOneSpanPerWord ==
    (pc # "ctc_decoder_predictions_tensor_with_ts" /\ Len(DecodedWords) >= 1) =>
        /\ pc \notin {"IndexError", "AssertionError"}
        /\ pc = "words_returned" => Len(ctc.word_ts) = Len(DecodedWords)

\* the sub-word decoder returns as many [start, end] pairs as the hypothesis
\* has words, so its assertion holds
BpeDecoderReturnsOneSpanPerWord ==
    /\ pc # "ipdb.set_trace"
    /\ pc = "word_ts_returned" => Len(bpe.word_ts) = Len(Split(bpe.hypothesis))

\* after apply_delay no word starts below zero, and every end has the delay
\* subtracted
ApplyDelayFloorsStarts ==
    pc = "delay_applied" =>
        LET before == TsLoop(bpe.decoded_char_list, bpe.char_ts, bpe.time_stride, 0, 0,
                             FALSE, <<>>)
        IN \A k \in 1..Len(bpe.word_ts) :
               /\ bpe.word_ts[k][1] >= 0
               /\ bpe.word_ts[k][1] \in {0, before[k][1] - bpe.asr_delay_sec}
               /\ bpe.word_ts[k][2] = before[k][2] - bpe.asr_delay_sec

\* C20: the word timestamps the character decoder returns have the decoder
\* delay subtracted and no start below zero
CharWordStartsNotNegative ==
    pc = "words_returned" =>
        \A k \in 1..Len(ctc.word_ts) : FLeq(Flt(0), ctc.word_ts[k][1])

\* the Word invariant on a list of [start, end] pairs of doubles: no word
\* ends before it starts, and no word starts before the word in front of it
\* has ended
WordInvariant(ws) ==
    \A k \in 1..Len(ws) :
        /\ FLeq(ws[k][1], ws[k][2])
        /\ k > 1 => FLeq(ws[k - 1][2], ws[k][1])

\* C21: the word timestamps the sub-word decoder returns, those the
\* character decoder returns, and what apply_delay makes of either, satisfy
\* the Word invariant
WordListsKeepWordInvariant ==
    /\ pc \in {"word_ts_returned", "delay_applied"} => WordInvariant(FloatTs(bpe.word_ts))
    /\ pc = "words_returned" => WordInvariant(ctc.word_ts)
    /\ pc = "apply_delay_returned" => WordInvariant(FloatTs(ctc.word_ts))

\* the word timestamps of both decoders satisfy the Word invariant as they
\* are returned, before apply_delay
DecodersKeepWordInvariant ==
    /\ pc = "word_ts_returned" => WordInvariant(FloatTs(bpe.word_ts))
    /\ pc = "words_returned" => WordInvariant(ctc.word_ts)

\* apply_delay with a delay of zero returns the list it was given
ApplyDelayOfZeroIsIdentity ==
    (pc = "delay_applied" /\ bpe.asr_delay_sec = 0) =>
        bpe.word_ts = TsLoop(bpe.decoded_char_list, bpe.char_ts, bpe.time_stride, 0, 0,
                             FALSE, <<>>)

\* the text and the timestamps clean_trans_and_TS was given
CleanInput ==
    LET d == CtcLoop(ctc.prediction, 0, CtcBlank,
                     [decoded_prediction |-> <<>>, decoded_timing_list |-> <<>>])
    IN [trans |-> d.decoded_prediction, char_ts |-> d.decoded_timing_list]

\* the number of separators in front of the first character of a text that
\* is no separator, and the number behind the last (none is counted twice
\* in a text of separators only)
LeadingSeparators(trans) == LeadingSpaces(trans)
TrailingSeparators(trans) ==
    IF LeadingSpaces(trans) = Len(trans) THEN 0 ELSE LeadingSpaces(Reverse(trans))

\* C22: clean_trans_and_TS, given a text and timestamps of the same length,
\* not zero, with L leading and R trailing separators, returns the text
\* without its first L and last R characters and the timestamps without
\* their first L and last R entries: both have the length of the text less
\* L + R, the k-th character returned is character L + k of the text with
\* the timestamp of that character, and the text returned neither starts
\* nor ends with a separator
CleanStripsBothEndsInStep ==
    pc \in {"_get_spaces", "get_word_ts_from_spaces", "words_returned"} =>
        LET L == LeadingSeparators(CleanInput.trans)
            R == TrailingSeparators(CleanInput.trans)
            n == Len(CleanInput.trans)
        IN /\ n > 0
           /\ Len(CleanInput.char_ts) = n
           /\ Len(ctc.trans) = n - L - R
           /\ Len(ctc.char_ts) = n - L - R
           /\ \A k \in 1..(n - L - R) :
                  /\ ctc.trans[k] = CleanInput.trans[L + k]
                  /\ ctc.char_ts[k] = CleanInput.char_ts[L + k]
           /\ ctc.trans # <<>> => (ctc.trans[1] # " " /\ ctc.trans[Len(ctc.trans)] # " ")

\* two leading separators and one trailing one are cut from " " " " "a" "b" " "
\* stamped 0, 2, 3, 4, 5: "a" "b" is left with the stamps 3 and 4
CleanStripsWitness ==
    /\ pc = "_get_spaces"
    /\ ctc.prediction = <<" ", CtcBlank, " ", "a", "b", " ">>
    /\ ctc.text = <<" ", " ", "a", "b", " ">>
    /\ ctc.trans = <<"a", "b">>
    /\ ctc.char_ts = <<3, 4>>

\* a text of separators only comes back empty, with no timestamps
CleanAllSeparatorsWitness ==
    /\ pc = "_get_spaces"
    /\ ctc.text = <<" ", " ">>
    /\ ctc.trans = <<>>
    /\ ctc.char_ts = <<>>

(***************************************************************************)
(* fake_initialize_model_parallel                                          *)
(* (nemo/collections/nlp/modules/common/megatron/megatron_init.py).  A     *)
(* group is the list of its ranks.                                         *)
(***************************************************************************)
MaxWorldSize == 16
MaxParallelSize == 5

\* list(range(start, stop, step)) for a positive step
Range(start, stop, step) ==
    IF stop <= start THEN <<>>
    ELSE [k \in 1..((stop - start + step - 1) \div step) |-> start + (k - 1) * step]

\* rank in ranks
InRanks(rank, ranks) == \E k \in 1..Len(ranks) : ranks[k] = rank

\* the group assigned last by `if rank in ranks: group = list(ranks)` in a
\* loop over the groups, when one was assigned
LastGroupOf(rank, groups) ==
    LET with == {g \in 1..Len(groups) : InRanks(rank, groups[g])}
    IN IF with = {} THEN [assigned |-> FALSE, ranks |-> <<>>]
       ELSE [assigned |-> TRUE,
             ranks |-> groups[CHOOSE g \in with : \A h \in with : h <= g]]

\* list.index(x) for an x in the list
IndexOf(ranks, x) ==
    (CHOOSE k \in 1..Len(ranks) : ranks[k] = x /\ \A h \in 1..(k - 1) : ranks[h] # x) - 1

\* the concatenation of the lists of a list
RECURSIVE Flatten(_)
Flatten(lists) == IF lists = <<>> THEN <<>> ELSE Head(lists) \o Flatten(Tail(lists))

\* world size, rank and the two sizes asked for
InitParallel ==
    /\ pc = "fake_initialize_model_parallel"
    /\ SilIdle
    /\ RunIdle
    /\ CoreIdle
    /\ OvlIdle
    /\ ScoreIdle
    /\ AsrIdle
    /\ BpeIdle
    /\ CtcIdle
    /\ \E world_size \in 1..MaxWorldSize :
       \E rank \in 0..(world_size - 1) :
       \E tp \in 1..MaxParallelSize, pp \in 1..MaxParallelSize :
           par = [NoGroups EXCEPT !.world_size = world_size, !.rank = rank,
                                 !.tensor_model_parallel_size_ = tp,
                                 !.pipeline_model_parallel_size_ = pp]

\* the sizes after min(size_, world_size)
TensorSize == Min(par.tensor_model_parallel_size_, par.world_size)
PipelineSize == Min(par.pipeline_model_parallel_size_, par.world_size)

\* the ranks of data-parallel group j (here jj) of pipeline stage i
DataRanks(i, jj, num_pipeline_groups, tensor_size) ==
    Range(i * num_pipeline_groups + jj, (i + 1) * num_pipeline_groups, tensor_size)

\* the ranks of tensor model-parallel group i
TensorRanks(i, tensor_size) == Range(i * tensor_size, (i + 1) * tensor_size, 1)

\* pipeline groups of neighbouring ranks
PipelineRanksContiguous(i, world_size, num_pipeline_groups) ==
    Range(i * (world_size \div num_pipeline_groups),
          (i + 1) * (world_size \div num_pipeline_groups), 1)

\* the ranks of pipeline model-parallel group i
PipelineRanks(i, world_size, num_pipeline_groups) == Range(i, world_size, num_pipeline_groups)

\* the embedding group of a pipeline group: its first and last rank
EmbeddingRanks(ranks) == IF Len(ranks) > 1 THEN <<ranks[1], ranks[Len(ranks)]>> ELSE ranks

\* fake_initialize_model_parallel: ensure_divisibility, the groups of each
\* kind, the lookups of the rank in its groups, and the tuple returned
FakeInitializeModelParallel ==
    /\ pc = "fake_initialize_model_parallel"
    /\ LET world_size == par.world_size
           rank == par.rank
           tensor_model_parallel_size == TensorSize
           pipeline_model_parallel_size == PipelineSize
           model_parallel_size == tensor_model_parallel_size * pipeline_model_parallel_size
       IN IF world_size % model_parallel_size # 0
          THEN pc' = "AssertionError" /\ UNCHANGED par
          ELSE LET data_parallel_size == world_size \div model_parallel_size
                   num_tensor_groups == world_size \div tensor_model_parallel_size
                   num_pipeline_groups == world_size \div pipeline_model_parallel_size
                   all_data ==
                       [g \in 1..(pipeline_model_parallel_size * tensor_model_parallel_size) |->
                           DataRanks((g - 1) \div tensor_model_parallel_size,
                                     (g - 1) % tensor_model_parallel_size,
                                     num_pipeline_groups, tensor_model_parallel_size)]
                   model_ok == \A g \in 1..Len(all_data) : Len(all_data[g]) >= data_parallel_size
                   all_model ==
                       [i \in 1..data_parallel_size |->
                           [g \in 1..Len(all_data) |-> all_data[g][i]]]
                   all_tensor ==
                       [i \in 1..num_tensor_groups |->
                           TensorRanks(i - 1, tensor_model_parallel_size)]
                   all_pipeline ==
                       [i \in 1..num_pipeline_groups |->
                           PipelineRanks(i - 1, world_size, num_pipeline_groups)]
                   all_embedding ==
                       [i \in 1..num_pipeline_groups |-> EmbeddingRanks(all_pipeline[i])]
                   data_parallel_group == LastGroupOf(rank, all_data)
                   tensor_model_parallel_group == LastGroupOf(rank, all_tensor)
                   pipeline_model_parallel_group == LastGroupOf(rank, all_pipeline)
               IN IF ~data_parallel_group.assigned
                  THEN pc' = "UnboundLocalError" /\ UNCHANGED par
                  ELSE IF ~model_ok
                  THEN pc' = "IndexError" /\ UNCHANGED par
                  ELSE IF ~tensor_model_parallel_group.assigned
                          \/ ~pipeline_model_parallel_group.assigned
                  THEN pc' = "AttributeError" /\ UNCHANGED par
                  ELSE /\ pc' = "parallel_returned"
                       /\ par' = [par EXCEPT
                              !.all_data_parallel_group_ranks = all_data,
                              !.all_model_parallel_group_ranks = all_model,
                              !.all_tensor_model_parallel_group_ranks = all_tensor,
                              !.all_pipeline_model_parallel_group_ranks = all_pipeline,
                              !.all_embedding_group_ranks = all_embedding,
                              !.returned =
                                  <<IndexOf(tensor_model_parallel_group.ranks, rank),
                                    IndexOf(pipeline_model_parallel_group.ranks, rank),
                                    model_parallel_size, data_parallel_size>>]
    /\ UNCHANGED <<sil, run, ovl, score, asr, bpe, ctc, coreVars>>

NextParallel == FakeInitializeModelParallel

SpecParallel == InitParallel /\ [][NextParallel]_vars

\* the groups are a partition of the ranks 0..world_size-1: every rank is at
\* one place of one group, and no other number is in a group
PartitionsRanks(groups, world_size) ==
    LET all == Flatten(groups)
    IN /\ Len(all) = world_size
       /\ \A r \in 0..(world_size - 1) : \E k \in 1..Len(all) : all[k] = r

\* C23: when world_size is divisible by the product of the two sizes (each
\* at most world_size), the lookups of the rank do not fail, the tensor, the
\* pipeline and the data-parallel groups each partition the ranks, the tuple
\* returned is (rank mod tp, rank div (world_size / pp), tp * pp,
\* world_size / (tp * pp)), and for 16 ranks with tp = 2 and pp = 4 the
\* groups are those of the docstring
ParallelGroupsPartitionRanks ==
    /\ pc \notin {"UnboundLocalError", "IndexError", "AttributeError"}
    /\ pc = "AssertionError" => par.world_size % (TensorSize * PipelineSize) # 0
    /\ pc = "parallel_returned" =>
           /\ par.world_size % (TensorSize * PipelineSize) = 0
           /\ PartitionsRanks(par.all_tensor_model_parallel_group_ranks, par.world_size)
           /\ PartitionsRanks(par.all_pipeline_model_parallel_group_ranks, par.world_size)
           /\ PartitionsRanks(par.all_data_parallel_group_ranks, par.world_size)
           /\ par.returned = <<par.rank % TensorSize,
                               par.rank \div (par.world_size \div PipelineSize),
                               TensorSize * PipelineSize,
                               par.world_size \div (TensorSize * PipelineSize)>>
           /\ (/\ par.world_size = 16
               /\ par.tensor_model_parallel_size_ = 2
               /\ par.pipeline_model_parallel_size_ = 4) =>
                  /\ par.all_data_parallel_group_ranks =
                         <<<<0, 2>>, <<1, 3>>, <<4, 6>>, <<5, 7>>, <<8, 10>>, <<9, 11>>,
                           <<12, 14>>, <<13, 15>>>>
                  /\ par.all_tensor_model_parallel_group_ranks =
                         <<<<0, 1>>, <<2, 3>>, <<4, 5>>, <<6, 7>>, <<8, 9>>, <<10, 11>>,
                           <<12, 13>>, <<14, 15>>>>
                  /\ par.all_pipeline_model_parallel_group_ranks =
                         <<<<0, 4, 8, 12>>, <<1, 5, 9, 13>>, <<2, 6, 10, 14>>,
                           <<3, 7, 11, 15>>>>

\* the example of the docstring, for rank 6: tensor rank 0, pipeline stage 1,
\* 8 model-parallel ranks, 2 data-parallel replicas
ParallelDocstringWitness ==
    /\ pc = "parallel_returned"
    /\ par.world_size = 16
    /\ par.tensor_model_parallel_size_ = 2
    /\ par.pipeline_model_parallel_size_ = 4
    /\ par.rank = 6
    /\ par.returned = <<0, 1, 8, 2>>

\* both sizes asked for are larger than the world: they are cut to it, and
\* the call returns when the world has one rank
ParallelClampedWitness ==
    /\ pc = "parallel_returned"
    /\ par.tensor_model_parallel_size_ > par.world_size
    /\ par.pipeline_model_parallel_size_ > par.world_size
    /\ par.returned = <<0, 0, 1, 1>>

(***************************************************************************)
(* The greedy CTC collapse of both decoders,                               *)
(* WER_TS.ctc_decoder_predictions_tensor_with_ts on the labels of the      *)
(* character vocabulary and WERBPE_TS.ctc_decoder_predictions_tensor_with_ts *)
(* on the pieces of the tokenizer.                                         *)
(***************************************************************************)
MaxPrediction == 5

\* the blank of the sub-word vocabulary
BpeBlank == <<"blank">>

\* the greedy predictions of an utterance, one piece or the blank per frame
InitBpePrediction ==
    /\ pc = "WERBPE_TS.ctc_decoder_predictions_tensor_with_ts"
    /\ SideIdle
    /\ CoreIdle
    /\ OvlIdle
    /\ ScoreIdle
    /\ AsrIdle
    /\ CtcIdle
    /\ \E n \in 1..MaxPrediction :
       \E prediction \in [1..n -> BpeTokens \cup {BpeBlank}], stride \in BpeStrides :
           bpe = [prediction |-> prediction, time_stride |-> stride, asr_delay_sec |-> 0,
                  decoded_char_list |-> <<>>, char_ts |-> <<>>, hypothesis |-> <<>>,
                  word_ts |-> <<>>]

\* the CTC decoding loop of WERBPE_TS from frame pdx on, with
\* char_ts = round(pdx * time_stride, 2)
RECURSIVE BpeCtcLoop(_, _, _, _, _)
BpeCtcLoop(prediction, time_stride, pdx, previous, acc) ==
    IF pdx = Len(prediction) THEN acc
    ELSE LET p == prediction[pdx + 1]
         IN BpeCtcLoop(prediction, time_stride, pdx + 1, p,
                       IF Emits(p, previous, BpeBlank)
                       THEN [decoded_prediction |-> Append(acc.decoded_prediction, p),
                             char_ts |-> Append(acc.char_ts, pdx * time_stride)]
                       ELSE acc)

\* WERBPE_TS.ctc_decoder_predictions_tensor_with_ts for one utterance: the
\* collapse, the text of the pieces and get_ts_from_decoded_prediction
BpeCtcDecode ==
    /\ pc = "WERBPE_TS.ctc_decoder_predictions_tensor_with_ts"
    /\ LET d == BpeCtcLoop(bpe.prediction, bpe.time_stride, 0, BpeBlank,
                           [decoded_prediction |-> <<>>, char_ts |-> <<>>])
           hypothesis == ids_to_text(d.decoded_prediction)
           word_ts_out == TsLoop(d.decoded_prediction, d.char_ts, bpe.time_stride, 0, 0,
                                 FALSE, <<>>)
       IN /\ bpe' = [bpe EXCEPT !.decoded_char_list = d.decoded_prediction,
                                !.char_ts = d.char_ts, !.hypothesis = hypothesis,
                                !.word_ts = word_ts_out]
          /\ pc' = IF Len(Split(hypothesis)) = Len(word_ts_out) THEN "word_ts_returned"
                   ELSE "ipdb.set_trace"
    /\ UNCHANGED <<sideVars, ovl, score, asr, ctc, coreVars>>

InitCollapse == InitChar \/ InitBpePrediction

NextCollapse == CtcDecode \/ BpeCtcDecode

SpecCollapse == InitCollapse /\ [][NextCollapse]_vars

\* the frames (counted from 1) whose id is not the blank and differs from
\* the id of the frame before, the first frame being compared with the blank
EmittingFrames(prediction, blank_id) ==
    {i \in 1..Len(prediction) :
        /\ prediction[i] # blank_id
        /\ prediction[i] # (IF i = 1 THEN blank_id ELSE prediction[i - 1])}

\* tokens and timestamps are those of the emitting frames in order, a
\* timestamp being the frame index times `unit`
IsCollapseOf(prediction, blank_id, tokens, stamps, unit) ==
    LET E == EmittingFrames(prediction, blank_id)
    IN /\ Len(tokens) = Cardinality(E)
       /\ Len(stamps) = Len(tokens)
       /\ \A k \in 1..Len(tokens) :
              /\ tokens[k] = prediction[KthOf(E, k)]
              /\ stamps[k] = (KthOf(E, k) - 1) * unit
              /\ tokens[k] # blank_id
              /\ k > 1 => stamps[k - 1] < stamps[k]
       \* a run of one id has one token, stamped with the first frame of the run
       /\ \A a \in 1..Len(prediction) : \A b \in a..Len(prediction) :
              (/\ prediction[a] # blank_id
               /\ \A i \in a..b : prediction[i] = prediction[a]
               /\ (a = 1 \/ prediction[a - 1] # prediction[a])) =>
                  {k \in 1..Len(stamps) : stamps[k] \in {(i - 1) * unit : i \in a..b}}
                      = {k \in 1..Len(stamps) : stamps[k] = (a - 1) * unit}
                  /\ \E k \in 1..Len(stamps) : stamps[k] = (a - 1) * unit
       \* an id, a blank and the id again give two tokens
       /\ \A a \in 1..(Len(prediction) - 2) :
              (/\ prediction[a] # blank_id
               /\ prediction[a + 1] = blank_id
               /\ prediction[a + 2] = prediction[a]) =>
                  \E k \in 1..(Len(tokens) - 1) :
                      /\ tokens[k] = prediction[a]
                      /\ tokens[k + 1] = prediction[a]
                      /\ stamps[k + 1] = (a + 1) * unit

\* C24: both decoders emit a token for a frame exactly when the id of the
\* frame is not the blank and differs from the id of the frame before it
\* (the blank, for the first frame): a run of repeats gives one token with
\* the stamp of its first frame, repeats with a blank between them give two
\* tokens, no blank is emitted, there are as many timestamps as tokens, and
\* the timestamps increase strictly
CollapseEmitsOnChange ==
    /\ pc = "clean_trans_and_TS" =>
           IsCollapseOf(ctc.prediction, CtcBlank, ctc.text, ctc.char_ts, 1)
    /\ pc \in {"word_ts_returned", "ipdb.set_trace"} =>
           IsCollapseOf(bpe.prediction, BpeBlank, bpe.decoded_char_list, bpe.char_ts,
                        bpe.time_stride)

\* a a blank a b: the run of two gives one token at frame 0, the repeat
\* after the blank a second one at frame 3
CollapseCharWitness ==
    /\ pc = "clean_trans_and_TS"
    /\ ctc.prediction = <<"a", "a", CtcBlank, "a", "b">>
    /\ ctc.text = <<"a", "a", "b">>
    /\ ctc.char_ts = <<0, 3, 4>>

\* the same for sub-word pieces at a stride of 0.04 s
CollapseBpeWitness ==
    /\ pc = "word_ts_returned"
    /\ bpe.time_stride = 4
    /\ bpe.prediction = <<<<"_", "a">>, <<"_", "a">>, BpeBlank, <<"_", "a">>, <<"b">>>>
    /\ bpe.decoded_char_list = <<<<"_", "a">>, <<"_", "a">>, <<"b">>>>
    /\ bpe.char_ts = <<0, 12, 16>>

(***************************************************************************)
(* closest_silence_start on arguments of its own.  The frame of a word end *)
(* is int(100 * word_ts[1]); the character decoder returns word ends down  *)
(* to one stride less the decoder delay, which is below zero.              *)
(***************************************************************************)
SilMaxWordEnd == 8

\* the least int(100 * word_ts[1]) of a word the character decoder returns
MinWordEndFrame ==
    Int100(FSub(Flt(StrideOf("QuartzNet")), Flt(DelayOf("QuartzNet"))))

\* the frame of a word end, a trace and the threshold
InitSilence ==
    /\ pc = "closest_silence_start"
    /\ ParIdle
    /\ RunIdle
    /\ CoreIdle
    /\ OvlIdle
    /\ ScoreIdle
    /\ AsrIdle
    /\ BpeIdle
    /\ CtcIdle
    /\ \E e \in MinWordEndFrame..SilMaxWordEnd, trace \in VadTraces(MaxFrames), t \in 1..2 :
           sil = [vad_index_word_end |-> e, vad_frames |-> trace,
                  SAD_threshold_for_word_ts |-> t, returned |-> 0]

\* vad_frames[c] raises IndexError for a c below -len(vad_frames)
ScanRaises(c, vad_frames) == c < Len(vad_frames) /\ c < 0 - Len(vad_frames)

\* closest_silence_start with the default offset
ClosestSilenceStart ==
    /\ pc = "closest_silence_start"
    /\ IF ScanRaises(sil.vad_index_word_end + Offset, sil.vad_frames)
       THEN pc' = "IndexError" /\ UNCHANGED sil
       ELSE /\ sil' = [sil EXCEPT !.returned =
                          closest_silence_start(sil.vad_index_word_end, sil.vad_frames, sil)]
            /\ pc' = "silence_returned"
    /\ UNCHANGED <<par, run, ovl, score, asr, bpe, ctc, coreVars>>

NextSilence == ClosestSilenceStart

SpecSilence == InitSilence /\ [][NextSilence]_vars

\* the frames of the trace at or after word_end_frame + offset whose score
\* is below the threshold
SilentFramesAfterWord ==
    {f \in 0..(Len(sil.vad_frames) - 1) :
        /\ f >= sil.vad_index_word_end + Offset
        /\ sil.vad_frames[f + 1] < sil.SAD_threshold_for_word_ts}

\* the frame the search is to return: the first of these, or the last frame
\* of the trace when there is none
FirstSilentFrame ==
    IF SilentFramesAfterWord = {} THEN Len(sil.vad_frames) - 1
    ELSE CHOOSE f \in SilentFramesAfterWord : \A h \in SilentFramesAfterWord : f <= h

\* C25: for a trace that is not empty closest_silence_start returns, and what
\* it returns is the time of the first frame at or after word_end_frame +
\* offset with a score below the threshold, or of the last frame of the
\* trace when there is none; the frame is within 0..len(trace)-1
SilenceSearchStaysInTrace ==
    Len(sil.vad_frames) > 0 =>
        /\ pc # "IndexError"
        /\ pc = "silence_returned" =>
               /\ sil.returned = FirstSilentFrame
               /\ sil.returned \in 0..(Len(sil.vad_frames) - 1)

\* the same for the calls whose search starts at a frame that is not below
\* zero
SilenceSearchFromFrameInTrace ==
    (Len(sil.vad_frames) > 0 /\ sil.vad_index_word_end + Offset >= 0) =>
        /\ pc # "IndexError"
        /\ pc = "silence_returned" =>
               /\ sil.returned = FirstSilentFrame
               /\ sil.returned \in 0..(Len(sil.vad_frames) - 1)

\* a search that starts in the trace and finds the first silent frame
SilenceFoundWitness ==
    /\ pc = "silence_returned"
    /\ sil.vad_index_word_end = 2
    /\ sil.vad_frames = [f \in 1..16 |-> IF f = 14 THEN 0 ELSE 1]
    /\ sil.SAD_threshold_for_word_ts = 1
    /\ sil.returned = 13

(***************************************************************************)
(* run_diarization followed by write_json_and_transcript on a list of      *)
(* audio files.  The clustering diarizer is external: the speaker labels   *)
(* it predicts and the frame-level traces of its VAD model are taken from  *)
(* small sets.  A field of the diarizer configuration that run_diarization *)
(* has not assigned is "unset".                                            *)
(***************************************************************************)
RunMaxWords == 2

\* the values of the argument oracle_manifest: the two keywords and the path
\* of a manifest that is supplied
RunManifests == {"asr_based_vad", "system_vad", "supplied_manifest.json"}

\* what write_VAD_rttm returns: os.path.join(oracle_vad_dir, 'oracle_manifest.json')
GeneratedManifest == "oracle_vad/oracle_manifest.json"

\* the word timestamps of an utterance of n words: word i starts 4 ticks
\* after word i - 1 and lasts 2 ticks
RunWordTs(n) == [i \in 1..n |-> <<4 * (i - 1), 4 * (i - 1) + 2>>]

\* the speaker labels the diarizer predicts for an utterance: rttm_to_labels
\* gives an empty list for an RTTM file without speech
RunDiarLabels ==
    {<<>>,
     <<[stt |-> 0, end |-> 12, spk |-> "speaker_0"]>>,
     <<[stt |-> 0, end |-> 3, spk |-> "speaker_0"], [stt |-> 3, end |-> 12, spk |-> "speaker_1"]>>}

\* the frame-level trace the VAD model writes for an utterance
RunTraces == {[f \in 1..AlignFrames |-> 1]}

\* the ids of the utterances of a file list
IdsOf(audio_file_list) ==
    {get_uniq_id_from_audio_path(audio_file_list[i]) : i \in 1..Len(audio_file_list)}

\* the file lists with unique ids, the words of run_ASR, the argument
\* oracle_manifest and the parameters
InitPipeline ==
    /\ pc = "run_diarization"
    /\ ParIdle
    /\ SilIdle
    /\ CoreIdle
    /\ OvlIdle
    /\ ScoreIdle
    /\ AsrIdle
    /\ BpeIdle
    /\ CtcIdle
    /\ \E files \in {f \in AudioFileLists : Cardinality(IdsOf(f)) = Len(f)} :
       \E n \in [1..Len(files) -> 0..RunMaxWords], src \in RunManifests :
       \E asr_vad \in BOOLEAN, fix \in BOOLEAN, thr \in 1..2, root \in {"None", DefaultRoot} :
           run = [NoRun EXCEPT
                     !.audio_file_list = files,
                     !.root_path = root,
                     !.word_list = [k \in 1..Len(files) |-> [i \in 1..n[k] |-> i]],
                     !.word_ts_list = [k \in 1..Len(files) |-> RunWordTs(n[k])],
                     !.oracle_manifest = src,
                     !.pretrained_vad_model = "vad_marblenet",
                     !.params = [threshold |-> thr, asr_based_vad |-> asr_vad,
                                 fix_word_ts_with_SAD |-> fix,
                                 max_word_ts_length_in_sec |-> 3,
                                 SAD_threshold_for_word_ts |-> 1],
                     !.config = [vad_model_path |-> "unset",
                                 oracle_vad_manifest |-> "unset",
                                 paths2audio_files |-> <<>>]]

\* save_SAD_labels_list: the RTTM files written, one per utterance when
\* params['asr_based_vad'] is set, none otherwise
SavedSADLabels(wts_list, audio_file_list, p) ==
    IF p.asr_based_vad
    THEN LET at(u) == CHOOSE i \in 1..Len(audio_file_list) :
                          /\ get_uniq_id_from_audio_path(audio_file_list[i]) = u
                          /\ \A h \in (i + 1)..Len(audio_file_list) :
                                 get_uniq_id_from_audio_path(audio_file_list[h]) # u
         IN [u \in IdsOf(audio_file_list) |->
                get_speech_labels_from_decoded_prediction(wts_list[at(u)], p.threshold)]
    ELSE EmptyDict

\* write_VAD_rttm: the RTTM files the manifest is written from
ManifestRttms(audio_file_list) ==
    [i \in 1..Len(audio_file_list) |-> get_uniq_id_from_audio_path(audio_file_list[i])]

\* config.diarizer.speaker_embeddings.oracle_vad_manifest = oracle_manifest
OracleVadManifest(oracle_manifest) == oracle_manifest

\* run_diarization: the voice-activity source, the configuration, the run of
\* the diarizer, get_frame_level_SAD and get_diarization_labels.  Before
\* create_directories self.root_path is None and os.path.join(self.root_path,
\* 'data') raises TypeError
RunDiarization ==
    /\ pc = "run_diarization"
    /\ IF run.root_path = "None"
       THEN /\ pc' = "TypeError"
            /\ UNCHANGED run
       ELSE /\ LET files == run.audio_file_list
                   asr_based == run.oracle_manifest = "asr_based_vad"
                   system == run.oracle_manifest = "system_vad"
                   oracle_manifest == IF asr_based THEN GeneratedManifest
                                      ELSE run.oracle_manifest
               IN \E diar \in [1..Len(files) -> RunDiarLabels],
                     traces \in [IdsOf(files) -> RunTraces] :
                      run' = [run EXCEPT
                          !.vad_rttm = IF asr_based
                                       THEN SavedSADLabels(run.word_ts_list, files, run.params)
                                       ELSE @,
                          !.oracle_manifest_json = IF asr_based THEN ManifestRttms(files)
                                                   ELSE @,
                          !.config = [vad_model_path |->
                                          IF system THEN run.pretrained_vad_model
                                          ELSE @.vad_model_path,
                                      oracle_vad_manifest |-> OracleVadManifest(oracle_manifest),
                                      paths2audio_files |-> files],
                          !.frame_VAD = IF oracle_manifest = "system_vad" THEN traces ELSE @,
                          !.diar_labels = diar]
            /\ pc' = "write_json_and_transcript"
    /\ UNCHANGED <<par, sil, ovl, score, asr, bpe, ctc, coreVars>>

\* the loop of write_json_and_transcript over the words of one utterance,
\* from word j (here jj) on with the pointer at idx (here ix)
RECURSIVE AlignLoop(_, _, _, _, _)
AlignLoop(word_ts_seq, labs, jj, ix, acc) ==
    IF jj = Len(word_ts_seq) THEN acc
    ELSE LET ts == word_ts_seq[jj + 1]
         IN IF WordPosBefore(ts, labs[ix + 1].end)
            THEN AlignLoop(word_ts_seq, labs, jj + 1, ix,
                     [words |-> Append(acc.words, WordEntry(jj + 1, ts, labs[ix + 1].spk)),
                      string_out |-> Append(acc.string_out, WordItem(jj + 1))])
            ELSE LET ni == NextIdx(ix, Len(labs))
                 IN AlignLoop(word_ts_seq, labs, jj + 1, ni,
                        [words |-> Append(acc.words, WordEntry(jj + 1, ts, labs[ni + 1].spk)),
                         string_out |-> acc.string_out \o <<TimeItem(ni, labs[ni + 1]),
                                                            WordItem(jj + 1)>>])

\* riva_dict and string_out of utterance k after the loop over its words
RivaDict(uniq_id, words, word_ts_seq, labs) ==
    LET r == AlignLoop(word_ts_seq, labs, 0, 0,
                       [words |-> <<>>, string_out |-> <<TimeItem(0, labs[1])>>])
    IN [session_id |-> uniq_id, transcription |-> words,
        speaker_count |-> Cardinality({labs[i].spk : i \in 1..Len(labs)}),
        words |-> r.words, string_out |-> r.string_out]

\* total_riva_dict[uniq_id] = riva_dict is inside the loop over the words: an
\* utterance gets its record with its first word
RecordPerUtteranceWithWords(audio_file_list, wts_list, riva) ==
    LET with == {get_uniq_id_from_audio_path(audio_file_list[k]) :
                     k \in {h \in 1..Len(audio_file_list) : wts_list[h] # <<>>}}
    IN [u \in with |-> riva[u]]

\* get_enhanced_word_ts_list reads self.frame_VAD[uniq_id] for every word but
\* the last of an utterance
ReadsMissingTrace(audio_file_list, wts_list, traces) ==
    \E k \in 1..Len(audio_file_list) :
        /\ Len(wts_list[k]) > 1
        /\ get_uniq_id_from_audio_path(audio_file_list[k]) \notin DOMAIN traces

\* the utterances the loop of write_json_and_transcript gets through:
\* labels[0].split() raises IndexError at the first utterance without labels
RECURSIVE UtterancesBeforeNoLabels(_, _)
UtterancesBeforeNoLabels(diar, k) ==
    IF k = Len(diar) \/ diar[k + 1] = <<>> THEN k
    ELSE UtterancesBeforeNoLabels(diar, k + 1)

\* write_json_and_transcript with the labels run_diarization returned; the
\* result files of an utterance are written at the end of its iteration
WriteJsonAndTranscript ==
    /\ pc = "write_json_and_transcript"
    /\ LET files == run.audio_file_list
           fix == run.params.fix_word_ts_with_SAD
       IN IF fix /\ ReadsMissingTrace(files, run.word_ts_list, run.frame_VAD)
          THEN pc' = "KeyError" /\ UNCHANGED run
          ELSE LET wts_list ==
                       IF fix
                       THEN [k \in 1..Len(files) |->
                                IF Len(run.word_ts_list[k]) > 1
                                THEN get_enhanced_word_ts_list(run.word_ts_list[k],
                                         run.frame_VAD[get_uniq_id_from_audio_path(files[k])],
                                         run.params)
                                ELSE <<>>]
                       ELSE [k \in 1..Len(files) |-> FloatTs(run.word_ts_list[k])]
                   done == UtterancesBeforeNoLabels(run.diar_labels, 0)
                   at(u) == CHOOSE k \in 1..Len(files) :
                                /\ get_uniq_id_from_audio_path(files[k]) = u
                                /\ \A h \in (k + 1)..Len(files) :
                                       get_uniq_id_from_audio_path(files[h]) # u
                   riva == [u \in {get_uniq_id_from_audio_path(files[k]) : k \in 1..done} |->
                               RivaDict(u, run.word_list[at(u)], wts_list[at(u)],
                                        run.diar_labels[at(u)])]
               IN IF done < Len(files)
                  THEN /\ run' = [run EXCEPT !.json_result = riva]
                       /\ pc' = "IndexError"
                  ELSE /\ run' = [run EXCEPT
                               !.word_ts_list = wts_list,
                               !.json_result = riva,
                               !.total_riva_dict =
                                   RecordPerUtteranceWithWords(files, wts_list, riva)]
                       /\ pc' = "total_riva_dict_returned"
    /\ UNCHANGED <<par, sil, ovl, score, asr, bpe, ctc, coreVars>>

NextPipeline == RunDiarization \/ WriteJsonAndTranscript

SpecPipeline == InitPipeline /\ [][NextPipeline]_vars

\* run_diarization has returned
DiarizationHasRun ==
    pc \in {"write_json_and_transcript", "KeyError", "IndexError", "total_riva_dict_returned"}

\* the utterance at Python index k of the file list
RunId(k) == get_uniq_id_from_audio_path(run.audio_file_list[k + 1])

\* the configuration names a VAD model, an oracle VAD manifest
ConfigHasVadModel == run.config.vad_model_path # "unset"
ConfigHasOracleManifest == run.config.oracle_vad_manifest # "unset"

\* with 'asr_based_vad' an RTTM file is written for every utterance from its
\* merged word intervals, and the manifest is generated from those files
AsrBasedVadSourceIsSet ==
    /\ DOMAIN run.vad_rttm = IdsOf(run.audio_file_list)
    /\ \A k \in 0..(Len(run.audio_file_list) - 1) :
           run.vad_rttm[RunId(k)] =
               get_speech_labels_from_decoded_prediction(RunWordTs(Len(run.word_list[k + 1])),
                                                         run.params.threshold)
    /\ run.oracle_manifest_json = [k \in 1..Len(run.audio_file_list) |-> RunId(k - 1)]
    /\ run.config.oracle_vad_manifest = GeneratedManifest
    /\ ~ConfigHasVadModel

\* with 'system_vad' the path of the VAD model is set, no oracle VAD
\* manifest is, and every utterance has its frame-level trace
SystemVadSourceIsSet ==
    /\ run.config.vad_model_path = run.pretrained_vad_model
    /\ ~ConfigHasOracleManifest
    /\ DOMAIN run.frame_VAD = IdsOf(run.audio_file_list)

\* with any other value the manifest supplied is the oracle VAD manifest and
\* no path of a VAD model is set
SuppliedManifestSourceIsSet ==
    /\ run.config.oracle_vad_manifest = run.oracle_manifest
    /\ ~ConfigHasVadModel

\* C26: after run_diarization the configuration holds one voice-activity
\* source, the one the argument oracle_manifest selects: the manifest
\* generated from the RTTM files written for every utterance, the VAD model
\* with no oracle VAD manifest and a trace stored for every utterance, or
\* the manifest supplied
OneVadSourcePerRun ==
    DiarizationHasRun =>
        /\ ConfigHasVadModel # ConfigHasOracleManifest
        /\ run.oracle_manifest = "asr_based_vad" => AsrBasedVadSourceIsSet
        /\ run.oracle_manifest = "system_vad" => SystemVadSourceIsSet
        /\ run.oracle_manifest \notin {"asr_based_vad", "system_vad"} =>
               SuppliedManifestSourceIsSet

\* what run_diarization does put into the configuration: the oracle VAD
\* manifest is assigned in every run (the keyword itself for 'system_vad'),
\* the RTTM files are written when params['asr_based_vad'] is set, and the
\* traces are stored for 'system_vad' only
VadSourceAsConfigured ==
    DiarizationHasRun =>
        /\ ConfigHasOracleManifest
        /\ ConfigHasVadModel <=> run.oracle_manifest = "system_vad"
        /\ (run.oracle_manifest = "asr_based_vad" /\ run.params.asr_based_vad) =>
               AsrBasedVadSourceIsSet
        /\ (run.oracle_manifest = "asr_based_vad" /\ ~run.params.asr_based_vad) =>
               (run.vad_rttm = EmptyDict /\ run.config.oracle_vad_manifest = GeneratedManifest)
        /\ run.oracle_manifest = "system_vad" =>
               /\ run.config.vad_model_path = run.pretrained_vad_model
               /\ run.config.oracle_vad_manifest = "system_vad"
               /\ DOMAIN run.frame_VAD = IdsOf(run.audio_file_list)
        /\ run.oracle_manifest # "system_vad" => run.frame_VAD = EmptyDict
        /\ run.oracle_manifest \notin {"asr_based_vad", "system_vad"} =>
               SuppliedManifestSourceIsSet

\* C27: with fix_word_ts_with_SAD set, frame_VAD holds a trace for every
\* utterance of the file list when write_json_and_transcript calls
\* get_enhanced_word_ts_list, whichever source was selected, and the call
\* does not fail on a missing trace
TraceForEveryUtterance ==
    /\ (pc = "write_json_and_transcript" /\ run.params.fix_word_ts_with_SAD) =>
           DOMAIN run.frame_VAD = IdsOf(run.audio_file_list)
    /\ pc # "KeyError"

\* the extension step finds its traces when the source is 'system_vad'
TraceForEveryUtteranceOfSystemVad ==
    run.oracle_manifest = "system_vad" =>
        /\ pc = "write_json_and_transcript" => DOMAIN run.frame_VAD = IdsOf(run.audio_file_list)
        /\ pc # "KeyError"

\* an extension step that has run on the traces of the VAD model
TraceReadWitness ==
    /\ pc = "total_riva_dict_returned"
    /\ run.oracle_manifest = "system_vad"
    /\ run.params.fix_word_ts_with_SAD
    /\ \E u \in DOMAIN run.total_riva_dict : run.total_riva_dict[u].words # <<>>

\* C28: the dictionary write_json_and_transcript returns has a record for
\* every utterance of the file list, an utterance without words included,
\* so every lookup of get_WDER finds one
RecordForEveryUtterance ==
    pc = "total_riva_dict_returned" =>
        /\ DOMAIN run.total_riva_dict = IdsOf(run.audio_file_list)
        /\ \A k \in 0..(Len(run.audio_file_list) - 1) :
               /\ RunId(k) \in DOMAIN run.total_riva_dict
               /\ run.total_riva_dict[RunId(k)].session_id = RunId(k)

\* the records that are returned: one for every utterance with at least one
\* word in the list the loop runs over, each under its own id
RecordForEveryUtteranceWithWords ==
    pc = "total_riva_dict_returned" =>
        /\ DOMAIN run.total_riva_dict =
               {RunId(k) : k \in {h \in 0..(Len(run.audio_file_list) - 1) :
                                      run.word_ts_list[h + 1] # <<>>}}
        /\ \A u \in DOMAIN run.total_riva_dict :
               /\ run.total_riva_dict[u].session_id = u
               /\ run.total_riva_dict[u] = run.json_result[u]
        /\ DOMAIN run.json_result = IdsOf(run.audio_file_list)

\* two utterances, the second without words: one record is returned
RecordMissingWitness ==
    /\ pc = "total_riva_dict_returned"
    /\ Len(run.audio_file_list) = 2
    /\ run.word_list[2] = <<>>
    /\ DOMAIN run.total_riva_dict = {RunId(0)}

\* get_WDER on the lists the scored run was called with, under either policy
WDEROfRun(lenient) ==
    get_WDER(score.audio_file_list, score.total_riva_dict, score.eval_returned[2],
             score.eval_returned[1], lenient)

\* the words, reference intervals and mapping of the utterance at Python index k
WordsOfRun(k) ==
    score.total_riva_dict[get_uniq_id_from_audio_path(score.audio_file_list[k + 1])].words
RefsOfRun(k) == score.eval_returned[1][k + 1]
MappingOfRun(k) ==
    score.eval_returned[2][get_uniq_id_from_audio_path(score.audio_file_list[k + 1])].mapping

\* C29: for the words, reference intervals and mapping get_WDER was called
\* with, every word counted correct under the strict policy is counted
\* correct under the lenient one, and the lenient WDER of every utterance
\* and of the total is at most the strict WDER (same word count, no more
\* wrong words)
LenientWDERAtMostStrict ==
    pc = "wder_returned" =>
        /\ score.wder_returned = WDEROfRun(params.lenient_overlap_WDER)
        /\ DOMAIN WDEROfRun(TRUE) = DOMAIN WDEROfRun(FALSE)
        /\ "total" \in DOMAIN WDEROfRun(FALSE)
        /\ \A u \in DOMAIN WDEROfRun(FALSE) :
               /\ WDEROfRun(TRUE)[u][2] = WDEROfRun(FALSE)[u][2]
               /\ WDEROfRun(TRUE)[u][1] <= WDEROfRun(FALSE)[u][1]
        /\ \A k \in 0..(Len(score.audio_file_list) - 1) :
               \A n \in 1..Len(WordsOfRun(k)) :
                   WordCorrect(RefsOfRun(k), MappingOfRun(k), FALSE, WordsOfRun(k)[n]) <=
                       WordCorrect(RefsOfRun(k), MappingOfRun(k), TRUE, WordsOfRun(k)[n])

\* a lenient run whose WDER is lower than the strict WDER of the same
\* arguments, for an utterance and for the total: a word is counted through
\* the second of two intervals of the same overlap
LenientBelowStrictWitness ==
    /\ pc = "wder_returned"
    /\ params.lenient_overlap_WDER
    /\ score.wder_returned["total"][1] < WDEROfRun(FALSE)["total"][1]
    /\ \E k \in 0..(Len(score.audio_file_list) - 1) :
           \E n \in 1..Len(WordsOfRun(k)) :
               /\ WordCorrect(RefsOfRun(k), MappingOfRun(k), TRUE, WordsOfRun(k)[n]) = 1
               /\ WordCorrect(RefsOfRun(k), MappingOfRun(k), FALSE, WordsOfRun(k)[n]) = 0

\* the speaker-turn markers of the transcript, in the order they were printed
Markers == SelectSeq(string_out, LAMBDA x : x.kind = "time")

\* the transcript of an utterance is being assembled or is complete
TranscriptStarted == pc \in {"align_loop", "done"}

\* C30: the first marker of the transcript announces speaker interval 0 and
\* no speaker interval is announced by more than one speaker-turn marker
EachIntervalAnnouncedOnce ==
    TranscriptStarted =>
        /\ Len(Markers) >= 1
        /\ Markers[1].idx = 0
        /\ \A a, b \in 1..Len(Markers) : a < b => Markers[a].idx # Markers[b].idx

\* C30 amended: the first marker announces interval 0 and each later marker
\* announces interval min(previous + 1, len(labels) - 1), with that
\* interval's start, end and speaker; so the markers run through the
\* intervals in order without skipping one, and only the last interval can
\* be announced by more than one marker (once for every word whose midpoint
\* is not before its end after the pointer has reached it)
MarkersFollowClampedPointer ==
    TranscriptStarted =>
        /\ Len(Markers) >= 1
        /\ Markers[1].idx = 0
        /\ \A a \in 2..Len(Markers) :
               Markers[a].idx = Min(Markers[a - 1].idx + 1, Len(labels) - 1)
        /\ \A a \in 1..Len(Markers) :
               /\ Markers[a].idx \in 0..(Len(labels) - 1)
               /\ Markers[a].speaker = labels[Markers[a].idx + 1].spk
               /\ Markers[a].start_point = labels[Markers[a].idx + 1].stt
               /\ Markers[a].end_point = labels[Markers[a].idx + 1].end
        /\ \A a, b \in 1..Len(Markers) :
               (a < b /\ Markers[a].idx = Markers[b].idx) => Markers[a].idx = Len(labels) - 1

\* a finished transcript of two words over two intervals with three markers:
\* interval 0, interval 1, and interval 1 again
MarkerRepeatsLastWitness ==
    /\ pc = "done"
    /\ Len(labels) = 2
    /\ Len(word_ts_list) = 2
    /\ [a \in 1..Len(Markers) |-> Markers[a].idx] = <<0, 1, 1>>

\* a single interval announced again before a word past its end
MarkerRepeatsOnlyIntervalWitness ==
    /\ pc = "done"
    /\ Len(labels) = 1
    /\ [a \in 1..Len(Markers) |-> Markers[a].idx] = <<0, 0>>

====
